---- MODULE Spec2Model ----
(***************************************************************************)
(* Model of dembrandt's extraction engine (src/lib/extractors.js).         *)
(*                                                                         *)
(* Model of the command line action (src/index.js) as well.                *)
(*                                                                         *)
(* The specifications of the module:                                       *)
(*   SpecColors       - one extractColors pass over an input page, step by *)
(*                      step;                                              *)
(*   Spec             - extractBranding: navigation, the Promise.all batch,*)
(*                      the hover/focus probe, the dark and mobile passes; *)
(*   SpecCli          - the action of the command (SpecCliFair: with every *)
(*                      await settling);                                   *)
(*   SpecGeometry     - the spacing, radius, border and shadow extractors; *)
(*   SpecNormalize    - normalizeColor applied twice to a colour text;     *)
(*   SpecCssVariables - the de-duplication of the colour custom properties;*)
(*   SpecLinks, SpecBadges, SpecFrameworks - one call of extractLinkStyles,*)
(*                      extractBadgeStyles and detectFrameworks.           *)
(*                                                                         *)
(* A CSS colour text is a record [fmt, nums, chars]:                       *)
(*   "rgb(r, g, b)"     is [fmt |-> "rgb",  nums |-> <<r,g,b>>, chars |-> <<>>]   *)
(*   "rgba(r, g, b, a)" is [fmt |-> "rgba", nums |-> <<r,g,b>>, chars |-> a]      *)
(*   any other text     is [fmt |-> "text", nums |-> <<>>, chars |-> characters]  *)
(* A computed style value (backgroundColor, color, borderColor) is the     *)
(* sequence of the colour tokens its string holds; the empty string is <<>>.*)
(* Distances are kept in hundredths of a deltaE unit.                      *)
(***************************************************************************)
EXTENDS Integers, Sequences, FiniteSets, TLC

VARIABLES
    \* ---- one extractColors pass (SpecColors) ----
    cpc,              \* position inside extractColors
    page,             \* the input page: a sequence of runs [n, el] of n equal elements
    scanned,          \* number of runs the elements.forEach loop has processed
    totalElements,    \* elements.length
    colorMap,         \* the Map normalized -> {original, count, score, sources}, in insertion order
    semanticColors,   \* semanticColors: every key holds the set of its value, {} when not set
    palette,          \* filtered, mapped and sorted entries (before de-duplication)
    clusters,         \* the `similar` array of every outer iteration of the dedup loop
    perceptuallyDeduped   \* the palette extractColors returns

colorVars == <<cpc, page, scanned, totalElements, colorMap, semanticColors, palette,
               clusters, perceptuallyDeduped>>

VARIABLES
    \* ---- extractBranding (Spec) ----
    pc,               \* position inside extractBranding
    options,          \* options.darkMode, options.mobile
    site,             \* the site: its rendering for every theme and viewport
    pageState,        \* what the phases have changed on the shared page
    attempts,         \* navigation attempts made
    validated,        \* the content-length check passed
    contentLength,    \* contentLength of the current pass of the navigation loop, -1 outside
    ext,              \* every extractor of the Promise.all batch: idle, running, done, failed
    batchError,       \* the first rejection of the batch ("none" when there is none)
    colorsPalette,    \* colors.palette
    buttons,          \* buttons, which becomes components.buttons
    sampled,          \* the sampled interactive elements
    probeIndex,       \* elements of sampled the probe loop has processed
    hoverFocusColors, \* the observations of the probe
    caught,           \* positions in sampled whose failure a catch block swallowed
    darkModeColors,   \* palette of the dark-mode re-extraction
    darkModeButtons,  \* darkModeButtons
    mutations,        \* page-mutating actions of the sequential phases, in order
    completed,        \* phases that have finished, in order
    error,            \* the stage whose error extractBranding rethrows
    result            \* the ExtractionResult

brandVars == <<pc, options, site, pageState, attempts, validated, contentLength, ext, batchError,
               colorsPalette, buttons, sampled, probeIndex, hoverFocusColors, caught,
               darkModeColors, darkModeButtons, mutations, completed, error, result>>

VARIABLES
    \* ---- the command-line action of index.js (SpecCli) ----
    cliPc,            \* position inside the action
    opts,             \* the command-line options
    useHeaded,        \* useHeaded
    browser,          \* the browser handle: "null", or the mode of the launched browser
    launched,         \* modes of the browsers launched, in order
    closed,           \* number of browser.close() calls made
    err,              \* the error the action failed with ("none" when there is none)
    written,          \* the save block: "no" (not entered), "written", "failed" (it threw)
    printed,          \* what was printed to the terminal after the extraction
    exitCode          \* -1 while running, then the exit code of the process

cliVars == <<cliPc, opts, useHeaded, browser, launched, closed, err, written, printed,
             exitCode>>

VARIABLES
    \* ---- the geometry extractors (SpecGeometry) ----
    gpc,              \* "scan" while the elements are walked, then "done"
    gpage,            \* the input page: a sequence of runs [n, el] of n equal elements
    gscanned,         \* number of runs processed
    spacings,         \* extractSpacing: the Map value -> count, in insertion order
    radii,            \* extractBorderRadius: the Map radius -> {count, elements}
    combinations,     \* extractBorders: the Map key -> {width, style, color, count, elements}
    shadows,          \* extractShadows: the Map shadow -> count
    geometry          \* what the four extractors return

geoVars == <<gpc, gpage, gscanned, spacings, radii, combinations, shadows, geometry>>

VARIABLES
    \* ---- one call of a page.evaluate function (SpecNormalize, SpecCssVariables,
    \*      SpecLinks, SpecBadges, SpecFrameworks) ----
    callPc,           \* "idle", "called", "again" or "returned"
    argument,         \* what the function is run on
    returnValue       \* what it returned

callVars == <<callPc, argument, returnValue>>

vars == <<colorVars, brandVars, cliVars, geoVars, callVars>>

----------------------------------------------------------------------------
(* Bounds of the model *)

\* number of runs of equal elements an input page is made of
NumGroups == 3
\* number of hidden elements the larger input pages carry besides their runs
PadElements == 400
\* extractors of the parallel batch besides extractColors, extractButtonStyles
\* and extractLinkStyles
NumOtherExtractors == 1
\* interactive elements on the page (the code samples at most 20 of them)
MaxSampled == 2
\* largest value of the occurrence threshold the palette is recomputed for
MaxThreshold == 7

----------------------------------------------------------------------------
(* Numbers and texts of computed styles. Lengths are kept in tenths of a *)
(* pixel; a CSS length text is a sequence of characters.                 *)

DigitChars == <<"0","1","2","3","4","5","6","7","8","9">>

IsDigit(ch) == ch \in {DigitChars[k] : k \in 1..10}

DigitValue(ch) == (CHOOSE k \in 1..10 : DigitChars[k] = ch) - 1

\* the decimal digits of a natural number
RECURSIVE IntToString(_)
IntToString(n) ==
    IF n < 10 THEN <<DigitChars[n + 1]>>
    ELSE IntToString(n \div 10) \o <<DigitChars[(n % 10) + 1]>>

\* Number::toString of a number given in tenths
NumberToString(t) ==
    (IF t < 0 THEN <<"-">> ELSE <<>>)
        \o LET a == IF t < 0 THEN -t ELSE t
           IN IntToString(a \div 10)
                  \o (IF a % 10 = 0 THEN <<>> ELSE <<".", DigitChars[(a % 10) + 1]>>)

\* the text of a computed length, e.g. "12.5px"
PxText(t) == NumberToString(t) \o <<"p", "x">>

\* the value parseFloat gives for a text that does not start with a number
NaN == -999999

\* the value of the digits chars[from..to]
RECURSIVE DigitsValue(_, _, _)
DigitsValue(chars, from, to) ==
    IF to < from THEN 0
    ELSE 10 * DigitsValue(chars, from, to - 1) + DigitValue(chars[to])

\* parseFloat, in tenths: an optional sign, digits, and one decimal
parseFloat(text) ==
    LET neg == Len(text) > 0 /\ text[1] = "-"
        start == IF neg THEN 2 ELSE 1
        stops == {k \in start..Len(text) : ~IsDigit(text[k])}
        stop == IF stops = {} THEN Len(text) + 1
                ELSE CHOOSE k \in stops : \A j \in stops : k <= j
        frac == IF /\ stop + 1 <= Len(text)
                   /\ text[stop] = "."
                   /\ IsDigit(text[stop + 1])
                THEN DigitValue(text[stop + 1]) ELSE 0
        magnitude == 10 * DigitsValue(text, start, stop - 1) + frac
    IN IF stop = start THEN NaN
       ELSE IF neg THEN -magnitude ELSE magnitude

\* x % k === 0 for a number in tenths and a whole number of pixels k
IsMultipleOf(x, k) == x # NaN /\ x % (10 * k) = 0

\* Array.prototype.sort(compare), which is stable: before[i, j] is
\* compare(s[i], s[j]) < 0, and an element comes after those that compare
\* before it and those that compare equal to it and precede it in s.
StableSort(s, before) ==
    LET rank(i) ==
            1 + Cardinality({j \in 1..Len(s) :
                               \/ before[j, i]
                               \/ ~before[i, j] /\ j < i})
    IN [r \in 1..Len(s) |-> s[CHOOSE i \in 1..Len(s) : rank(i) = r]]

\* Array.prototype.slice(0, n)
SliceTo(s, n) == IF Len(s) <= n THEN s ELSE SubSeq(s, 1, n)

----------------------------------------------------------------------------
(* Colour texts *)

Rgb(r, g, b) == [fmt |-> "rgb", nums |-> <<r, g, b>>, chars |-> <<>>]
Rgba(r, g, b, a) == [fmt |-> "rgba", nums |-> <<r, g, b>>, chars |-> a]
Text(cs) == [fmt |-> "text", nums |-> <<>>, chars |-> cs]

TransparentRgba == Rgba(0, 0, 0, <<"0">>)
TransparentWord == Text(<<"t","r","a","n","s","p","a","r","e","n","t">>)
White == Rgb(255, 255, 255)
Black == Rgb(0, 0, 0)
LightGray == Rgb(239, 239, 239)
Blue1 == Rgb(59, 130, 246)
Blue2 == Rgb(60, 131, 247)
Blue1Alpha == Rgba(59, 130, 246, <<"0", ".", "5">>)
Grey100 == Rgb(100, 100, 100)
Grey130 == Rgb(130, 130, 130)
Grey160 == Rgb(160, 160, 160)
Red == Rgb(255, 0, 0)
NearWhite == Rgb(250, 250, 250)

Max(a, b) == IF a > b THEN a ELSE b

HexDigits == <<"0","1","2","3","4","5","6","7","8","9","a","b","c","d","e","f">>
UpperChars == <<"A","B","C","D","E","F","G","H","I","J","K","L","M",
                "N","O","P","Q","R","S","T","U","V","W","X","Y","Z">>
LowerChars == <<"a","b","c","d","e","f","g","h","i","j","k","l","m",
                "n","o","p","q","r","s","t","u","v","w","x","y","z">>

\* Number.prototype.toString(16)
RECURSIVE toString16(_)
toString16(n) ==
    IF n < 16 THEN <<HexDigits[n + 1]>>
    ELSE toString16(n \div 16) \o <<HexDigits[(n % 16) + 1]>>

\* String.prototype.padStart(2, "0")
padStart2(s) == IF Len(s) < 2 THEN <<"0">> \o s ELSE s

\* String.prototype.toLowerCase, character by character
toLowerCase(cs) ==
    [i \in 1..Len(cs) |->
        IF \E k \in 1..Len(UpperChars) : UpperChars[k] = cs[i]
        THEN LowerChars[CHOOSE k \in 1..Len(UpperChars) : UpperChars[k] = cs[i]]
        ELSE cs[i]]

\* number of decimal digits of n, for the length of a colour text
RECURSIVE DecLen(_)
DecLen(n) == IF n < 10 THEN 1 ELSE 1 + DecLen(n \div 10)

\* String length of a colour text
TextLength(c) ==
    IF c.fmt = "text" THEN Len(c.chars)
    ELSE LET digits == DecLen(c.nums[1]) + DecLen(c.nums[2]) + DecLen(c.nums[3])
         IN IF c.fmt = "rgb" THEN 4 + digits + 4 + 1
            ELSE 5 + digits + 6 + Len(c.chars) + 1

\* first position from k on that holds no digit
DigitsEnd(cs, k) ==
    LET stops == {j \in k..Len(cs) : ~IsDigit(cs[j])}
    IN IF stops = {} THEN Len(cs) + 1 ELSE CHOOSE j \in stops : \A x \in stops : j <= x

\* first position from k on that holds no white space
SpacesEnd(cs, k) ==
    LET stops == {j \in k..Len(cs) : cs[j] # " "}
    IN IF stops = {} THEN Len(cs) + 1 ELSE CHOOSE j \in stops : \A x \in stops : j <= x

\* the third number of the pattern, from r3 up to e3
RgbThird(cs, r1, e1, r2, e2, r3, e3) ==
    IF e3 > r3
    THEN <<DigitsValue(cs, r1, e1 - 1), DigitsValue(cs, r2, e2 - 1),
           DigitsValue(cs, r3, e3 - 1)>>
    ELSE <<>>

\* the second number, from r2 up to e2, its comma and the white space after it
RgbSecond(cs, r1, e1, r2, e2) ==
    IF e2 > r2 /\ e2 <= Len(cs) /\ cs[e2] = ","
    THEN RgbThird(cs, r1, e1, r2, e2, SpacesEnd(cs, e2 + 1),
                  DigitsEnd(cs, SpacesEnd(cs, e2 + 1)))
    ELSE <<>>

\* the first number, from r1 up to e1, its comma and the white space after it
RgbFirst(cs, r1, e1) ==
    IF e1 > r1 /\ e1 <= Len(cs) /\ cs[e1] = ","
    THEN RgbSecond(cs, r1, e1, SpacesEnd(cs, e1 + 1), DigitsEnd(cs, SpacesEnd(cs, e1 + 1)))
    ELSE <<>>

\* the opening parenthesis
RgbOpen(cs, open) ==
    IF open <= Len(cs) /\ cs[open] = "("
    THEN RgbFirst(cs, open + 1, DigitsEnd(cs, open + 1))
    ELSE <<>>

\* /rgba?\((\d+),\s*(\d+),\s*(\d+)/ tried at position i: the three
\* numbers, or <<>> when the pattern does not match there
RgbMatchAt(cs, i) ==
    IF ~(i + 2 <= Len(cs) /\ cs[i] = "r" /\ cs[i + 1] = "g" /\ cs[i + 2] = "b")
    THEN <<>>
    ELSE RgbOpen(cs, IF i + 3 <= Len(cs) /\ cs[i + 3] = "a" THEN i + 4 ELSE i + 3)

\* the leftmost position of a set of positions
Leftmost(hits) == CHOOSE i \in hits : \A x \in hits : i <= x

\* the match at the leftmost position where the pattern matches, <<>> for null
RgbMatchIn(cs, hits) == IF hits = {} THEN <<>> ELSE RgbMatchAt(cs, Leftmost(hits))

\* color.match(/rgba?\((\d+),\s*(\d+),\s*(\d+)/): the numbers of the
\* leftmost match, or <<>> for null
RgbMatch(color) ==
    IF color.fmt \in {"rgb", "rgba"} THEN color.nums
    ELSE RgbMatchIn(color.chars,
                    {i \in 1..Len(color.chars) : RgbMatchAt(color.chars, i) # <<>>})

\* the "#rrggbb" text of three numbers
HexText(nums) ==
    Text(<<"#">> \o padStart2(toString16(nums[1])) \o padStart2(toString16(nums[2]))
                 \o padStart2(toString16(nums[3])))

\* the two branches of normalizeColor on the result of color.match
NormalizedFrom(color, rgbaMatch) ==
    IF rgbaMatch # <<>> THEN HexText(rgbaMatch) ELSE Text(toLowerCase(color.chars))

\* normalizeColor: rgb()/rgba() text to "#rrggbb", any other text lowercased
normalizeColor(color) == NormalizedFrom(color, RgbMatch(color))

----------------------------------------------------------------------------
(* deltaE: CIE76 distance of two normalized colours *)

HexValue(ch) ==
    LET l == toLowerCase(<<ch>>)[1]
    IN (CHOOSE k \in 1..16 : HexDigits[k] = l) - 1

IsHexChar(ch) == toLowerCase(<<ch>>)[1] \in {HexDigits[k] : k \in 1..16}

\* hexToRgb: <<r, g, b>>, or <<>> for null
hexToRgb(hex) ==
    IF /\ Len(hex.chars) = 7
       /\ hex.chars[1] = "#"
       /\ \A i \in 2..7 : IsHexChar(hex.chars[i])
    THEN [i \in 1..3 |->
            16 * HexValue(hex.chars[2 * i]) + HexValue(hex.chars[2 * i + 1])]
    ELSE <<>>

\* rgbToXyz followed by xyzToLab: <<L, a, b>> in hundredths, tabulated for the
\* colours of the model from the source's formulas (gamma 2.4, D65 white point)
rgbToLab(rgb) ==
    CASE rgb = <<59, 130, 246>>  -> <<5563, 1754, -6442>>
      [] rgb = <<60, 131, 247>>  -> <<5599, 1740, -6439>>
      [] rgb = <<100, 100, 100>> -> <<4237, 0, 0>>
      [] rgb = <<130, 130, 130>> -> <<5437, 0, 0>>
      [] rgb = <<160, 160, 160>> -> <<6587, 0, 0>>
      [] rgb = <<255, 255, 255>> -> <<10000, 0, 0>>
      [] rgb = <<0, 0, 0>>       -> <<0, 0, 0>>
      [] rgb = <<255, 0, 0>>     -> <<5324, 8009, 6720>>
      [] rgb = <<250, 250, 250>> -> <<9827, 0, 0>>
      [] rgb = <<0, 128, 0>>     -> <<4623, -5170, 4990>>

\* floor of Math.sqrt, by bisection on lo <= sqrt(n) < hi
RECURSIVE SqrtBetween(_, _, _)
SqrtBetween(n, lo, hi) ==
    IF hi - lo <= 1 THEN lo
    ELSE LET mid == (lo + hi) \div 2
         IN IF mid * mid <= n THEN SqrtBetween(n, mid, hi)
            ELSE SqrtBetween(n, lo, mid)

\* deltaE(rgb1, rgb2), in hundredths; 999 when either colour does not parse
deltaE(rgb1, rgb2) ==
    LET rgb1Obj == hexToRgb(rgb1)
        rgb2Obj == hexToRgb(rgb2)
    IN IF rgb1Obj = <<>> \/ rgb2Obj = <<>> THEN 999 * 100
       ELSE LET lab1 == rgbToLab(rgb1Obj)
                lab2 == rgbToLab(rgb2Obj)
                deltaL == lab1[1] - lab2[1]
                deltaA == lab1[2] - lab2[2]
                deltaB == lab1[3] - lab2[3]
            IN SqrtBetween(deltaL * deltaL + deltaA * deltaA + deltaB * deltaB,
                           0, 40000)

----------------------------------------------------------------------------
(* extractColors: the element scan *)

\* keyword -> weight
contextScores ==
    [logo |-> 5, brand |-> 5, primary |-> 4, cta |-> 4, hero |-> 3,
     button |-> 3, link |-> 2, header |-> 2, nav |-> 1]

\* An element: hidden (display none, visibility hidden or opacity 0), the set
\* of keywords its context string includes, the first blank-separated token of
\* the context string, its three computed colour values and its computed
\* border width (0px unless WithBorder sets it).
Element(hidden, keywords, first, bg, text, border) ==
    [hidden |-> hidden, keywords |-> keywords, first |-> first,
     bgColor |-> bg, textColor |-> text, borderColor |-> border,
     borderWidth |-> PxText(0)]

\* the same element with a border of the given width
WithBorder(el, width) == [el EXCEPT !.borderWidth = width]

\* the keyword table alone
ElementScoreTableOnly(el) ==
    LET matched == {contextScores[k] : k \in el.keywords \cap DOMAIN contextScores}
    IN CHOOSE m \in matched \cup {1} : \A x \in matched \cup {1} : x <= m

\* the per-element score: the keyword table, then the coloured-button boost
ElementScore(el) ==
    LET matched == {contextScores[k] : k \in el.keywords \cap DOMAIN contextScores}
        base == CHOOSE m \in matched \cup {1} : \A x \in matched \cup {1} : x <= m
    IN IF /\ el.keywords \cap {"button", "btn", "cta"} # {}
          /\ el.bgColor # <<>>
          /\ el.bgColor # <<TransparentRgba>>
          /\ el.bgColor # <<TransparentWord>>
          /\ el.bgColor # <<White>>
          /\ el.bgColor # <<Black>>
          /\ el.bgColor # <<LightGray>>
       THEN Max(base, 25)
       ELSE base

\* extractColorsFromValue: the colour tokens of a value, transparent ones dropped
extractColorsFromValue(colorValue) ==
    SelectSeq(colorValue,
              LAMBDA c : /\ c # TransparentWord
                         /\ c # TransparentRgba
                         /\ TextLength(c) > 2)

\* index of the colorMap record of a normalized colour, 0 when absent
MapIndex(map, normalized) ==
    IF \E i \in 1..Len(map) : map[i].normalized = normalized
    THEN CHOOSE i \in 1..Len(map) : map[i].normalized = normalized
    ELSE 0

\* allColors.forEach for one colour of an element, over `times` equal elements:
\* every iteration does count++, score += score, sources.add, so the run adds
\* `times` to the count and times * score to the score
AddColor(map, color, score, first, times) ==
    IF color = TransparentRgba \/ color = TransparentWord THEN map
    ELSE
      LET normalized == normalizeColor(color)
          i == MapIndex(map, normalized)
          existing == IF i # 0 THEN map[i]
                      ELSE [normalized |-> normalized, original |-> color,
                            count |-> 0, score |-> 0, sources |-> <<>>]
          sources == IF /\ score > 1
                        /\ first # ""
                        /\ \A k \in 1..Len(existing.sources) : existing.sources[k] # first
                     THEN Append(existing.sources, first)
                     ELSE existing.sources
          updated == [existing EXCEPT !.count = @ + times, !.score = @ + times * score,
                                      !.sources = sources]
      IN IF i # 0 THEN [map EXCEPT ![i] = updated] ELSE Append(map, updated)

RECURSIVE AddColors(_, _, _, _, _)
AddColors(map, colors, score, first, times) ==
    IF colors = <<>> THEN map
    ELSE AddColors(AddColor(map, Head(colors), score, first, times), Tail(colors),
                   score, first, times)

\* the colours collected from one element
AllColors(el) ==
    extractColorsFromValue(el.bgColor)
        \o extractColorsFromValue(el.textColor)
        \o extractColorsFromValue(el.borderColor)

\* the body of elements.forEach applied to a run of n equal elements (an
\* iteration over a hidden element returns at once)
ScanRun(map, el, n) ==
    IF n = 0 \/ el.hidden THEN map
    ELSE AddColors(map, AllColors(el), ElementScore(el), el.first, n)

\* const semanticColors = {}
NoSemanticColors == [primary |-> {}, secondary |-> {}]

\* The semantic colour detection of the elements.forEach body, over a run of n
\* equal elements (every iteration assigns the same values).
SemanticRun(semantic, el, n) ==
    IF n = 0 \/ el.hidden THEN semantic
    ELSE [primary |->
            IF "primary" \in el.keywords
            THEN (IF el.bgColor # <<TransparentRgba>> /\ el.bgColor # <<TransparentWord>>
                  THEN {el.bgColor} ELSE {el.textColor})
            ELSE semantic.primary,
          secondary |->
            IF "secondary" \in el.keywords THEN {el.bgColor} ELSE semantic.secondary]

RECURSIVE ScanPage(_, _)
ScanPage(map, p) ==
    IF p = <<>> THEN map
    ELSE ScanPage(ScanRun(map, Head(p).el, Head(p).n), Tail(p))

RECURSIVE CountElements(_)
CountElements(p) == IF p = <<>> THEN 0 ELSE Head(p).n + CountElements(Tail(p))

----------------------------------------------------------------------------
(* extractColors: threshold, structural filter, palette entries, sort *)

\* Math.max(3, Math.floor(totalElements * 0.01))
ThresholdNoFloor(total) == 3
Threshold(total) == Max(3, total \div 100)

\* isStructuralColor. (count / total) * 100 > 40 and score < count * 1.2 are
\* written over the integers: count, score and total are integers, and the
\* doubles the code computes order the same way (0.4 * 100 rounds to 40).
isStructuralUsageOnly(data, total) == data.count * 100 > 40 * total
isStructuralColor(data, total) ==
    \/ data.original = TransparentRgba
    \/ data.original = TransparentWord
    \/ /\ data.count * 100 > 40 * total
       /\ data.score * 5 < data.count * 6

\* the confidence of a palette entry
ConfidenceInclusive(score) ==
    IF score >= 20 THEN "high" ELSE IF score >= 5 THEN "medium" ELSE "low"
Confidence(score) ==
    IF score > 20 THEN "high" ELSE IF score > 5 THEN "medium" ELSE "low"

\* Array.prototype.slice(0, 3)
Slice3(s) == IF Len(s) <= 3 THEN s ELSE SubSeq(s, 1, 3)

\* the palette entry of a colorMap record (source is "" until a merge tags it)
PaletteEntry(data) ==
    [color |-> data.original, normalized |-> data.normalized, count |-> data.count,
     confidence |-> Confidence(data.score), sources |-> Slice3(data.sources),
     source |-> ""]

\* the filter callback of the palette chain, for a given value of `threshold`
KeepsColorAt(data, total, threshold) ==
    /\ ~(data.count < threshold)
    /\ ~isStructuralColor(data, total)

\* the filter callback with the threshold the code computes
KeepsColor(data, total) == KeepsColorAt(data, total, Threshold(total))

\* a stable sort ascending by count
RECURSIVE SortByCountAsc(_)
SortByCountAsc(s) ==
    IF s = <<>> THEN <<>>
    ELSE LET rest == SortByCountAsc(SubSeq(s, 1, Len(s) - 1))
             x == s[Len(s)]
             k == Cardinality({i \in 1..Len(rest) : rest[i].count <= x.count})
         IN SubSeq(rest, 1, k) \o <<x>> \o SubSeq(rest, k + 1, Len(rest))

\* Array.prototype.sort((a, b) => b.count - a.count): stable, descending by count
RECURSIVE SortByCountDesc(_)
SortByCountDesc(s) ==
    IF s = <<>> THEN <<>>
    ELSE LET rest == SortByCountDesc(SubSeq(s, 1, Len(s) - 1))
             x == s[Len(s)]
             k == Cardinality({i \in 1..Len(rest) : rest[i].count >= x.count})
         IN SubSeq(rest, 1, k) \o <<x>> \o SubSeq(rest, k + 1, Len(rest))

\* Array.from(colorMap.entries()).filter(...).map(...).sort(...)
BuildPalette(map, total) ==
    LET kept == SelectSeq(map, LAMBDA data : KeepsColor(data, total))
    IN SortByCountDesc([i \in 1..Len(kept) |-> PaletteEntry(kept[i])])

----------------------------------------------------------------------------
(* extractColors: perceptual de-duplication *)

\* distance < 15 in the inner loop of the dedup
SimilarWithin10(a, b) == deltaE(a.normalized, b.normalized) < 10 * 100
Similar(a, b) == deltaE(a.normalized, b.normalized) < 15 * 100

\* similar.sort((a, b) => b.count - a.count)[0]
BestLast(similar) == SortByCountDesc(similar)[Len(similar)]
Best(similar) == SortByCountDesc(similar)[1]

\* The palette.forEach loop from position index on, with the set merged of
\* positions already merged: the `similar` array of every iteration that is
\* not skipped.
RECURSIVE DedupFrom(_, _, _)
DedupFrom(pal, index, merged) ==
    IF index > Len(pal) THEN <<>>
    ELSE IF index \in merged THEN DedupFrom(pal, index + 1, merged)
    ELSE LET later == [k \in 1..(Len(pal) - index) |-> index + k]
             hits == SelectSeq(later, LAMBDA i : i \notin merged /\ Similar(pal[index], pal[i]))
             similar == <<pal[index]>> \o [k \in 1..Len(hits) |-> pal[hits[k]]]
         IN <<similar>> \o
            DedupFrom(pal, index + 1, merged \cup {hits[k] : k \in 1..Len(hits)})

DedupClusters(pal) == DedupFrom(pal, 1, {})

\* perceptuallyDeduped: the best entry of every cluster
DedupedPalette(cl) == [k \in 1..Len(cl) |-> Best(cl[k])]

\* the palette of one whole extractColors pass over page p
extractColorsPalette(p) ==
    DedupedPalette(DedupClusters(BuildPalette(ScanPage(<<>>, p), CountElements(p))))

\* the filter, map, sort and dedup of a colorMap, for a given threshold
PaletteAt(map, total, threshold) ==
    LET kept == SelectSeq(map, LAMBDA data : KeepsColorAt(data, total, threshold))
    IN DedupedPalette(DedupClusters(
           SortByCountDesc([i \in 1..Len(kept) |-> PaletteEntry(kept[i])])))

----------------------------------------------------------------------------
(* Input pages *)

NoColor == <<TransparentRgba>>

HiddenDiv == Element(TRUE, {}, "", <<White>>, <<Red>>, <<Red>>)
PlainDiv == Element(FALSE, {}, "", NoColor, <<Black>>, <<Black>>)
WhiteCard == Element(FALSE, {}, "card", <<White>>, <<Black>>, <<Black>>)
BlueButton == Element(FALSE, {"btn", "primary"}, "btn", <<Blue1>>, <<White>>, <<White>>)
BlueBox == Element(FALSE, {}, "box", <<Blue2>>, <<Black>>, <<Black, Red>>)
LogoText == Element(FALSE, {"logo", "secondary"}, "logo", NoColor, <<Grey100>>, <<Grey100>>)
GreyPanel == Element(FALSE, {}, "panel", <<Grey130>>, <<Grey100>>, <<Grey100>>)
GreyNav == Element(FALSE, {"nav"}, "nav", <<Grey160>>, <<Grey130>>, <<Grey130>>)
GreyLink == Element(FALSE, {"link"}, "link", <<Grey100>>, <<Grey160>>, <<Grey160>>)

Run(n, el) == [n |-> n, el |-> el]

\* the runs input pages are built from
Groups ==
    {Run(3, BlueButton), Run(4, BlueBox), Run(2, LogoText), Run(3, GreyPanel),
     Run(4, GreyNav), Run(5, GreyLink), Run(6, WhiteCard)}

\* NumGroups runs, alone or followed by PadElements hidden elements
InputPages ==
    LET runs == [1..NumGroups -> Groups]
    IN runs \cup {r \o <<Run(PadElements, HiddenDiv)>> : r \in runs}

----------------------------------------------------------------------------
(* extractBranding: the site, the batch, the hover/focus probe, the merges *)

RedBadge == Element(FALSE, {"cta"}, "cta", <<Red>>, <<White>>, <<White>>)

LightPage == <<Run(3, BlueButton), Run(2, LogoText), Run(20, HiddenDiv)>>
DarkPage == <<Run(4, BlueBox), Run(4, GreyNav), Run(20, HiddenDiv)>>
MobilePage == <<Run(3, BlueButton), Run(5, GreyLink), Run(20, HiddenDiv)>>
\* a banner only the dark theme shows on the mobile viewport
GreenBanner == Element(FALSE, {"hero"}, "hero", <<Rgb(0, 128, 0)>>, <<White>>, <<White>>)
DarkMobilePage ==
    <<Run(4, BlueBox), Run(5, GreyLink), Run(3, GreenBanner), Run(20, HiddenDiv)>>
\* a button with a border and no background
GhostButton ==
    WithBorder(Element(FALSE, {"btn"}, "btn", NoColor, <<Black>>, <<Black>>), PxText(10))
RedPage == <<Run(3, RedBadge), Run(1, GhostButton), Run(20, HiddenDiv)>>

\* a site renders one page per theme and viewport
Site(light, dark, mobile, darkMobile) ==
    [light |-> light, dark |-> dark, mobile |-> mobile, darkMobile |-> darkMobile]

SiteStatic == Site(LightPage, LightPage, LightPage, LightPage)
SiteThemed == Site(LightPage, DarkPage, MobilePage, DarkMobilePage)
SiteRed == Site(LightPage, RedPage, RedPage, RedPage)
Sites == {SiteStatic, SiteThemed, SiteRed}

\* a page whose dark theme is gone once the viewport is changed
RenderViewportFirst(st, state) ==
    LET dark == state.theme \/ state.colorScheme = "dark"
    IN IF state.viewport = "mobile" THEN st.mobile
       ELSE IF dark THEN st.dark
       ELSE st.light

\* the page the extractors read, given what has been changed on it
Render(st, state) ==
    LET dark == state.theme \/ state.colorScheme = "dark"
    IN IF dark /\ state.viewport = "mobile" THEN st.darkMobile
       ELSE IF dark THEN st.dark
       ELSE IF state.viewport = "mobile" THEN st.mobile
       ELSE st.light

InitialPageState == [theme |-> FALSE, colorScheme |-> "light", viewport |-> "desktop"]

\* ---- extractButtonStyles ----

\* The elements the selector list matches. The context string of the input
\* elements is their class name, so the class selectors [class*="btn"],
\* [class*="button"] and [class*="cta"] are the keywords btn, button and cta.
IsButtonCandidate(el) == el.keywords \cap {"btn", "button", "cta"} # {}

\* a candidate is kept unless it is not visible or has neither a background
\* nor a border
ButtonQualifies(el) ==
    LET hasBorder == el.borderWidth # <<>> /\ parseFloat(el.borderWidth) > 0
        hasBackground == /\ el.bgColor # <<>>
                         /\ el.bgColor # <<TransparentRgba>>
                         /\ el.bgColor # <<TransparentWord>>
    IN ~el.hidden /\ (hasBackground \/ hasBorder)

\* the record pushed for a button: its default state and its classes
\* (source "" stands for a record without a source property)
ButtonStyle(el) ==
    [states |-> [default |-> [backgroundColor |-> el.bgColor, color |-> el.textColor]],
     classes |-> el.first, source |-> ""]

\* buttonStyles after the forEach over the candidates of a page
RECURSIVE ButtonStyles(_)
ButtonStyles(pg) ==
    IF pg = <<>> THEN <<>>
    ELSE (IF IsButtonCandidate(Head(pg).el) /\ ButtonQualifies(Head(pg).el)
          THEN [i \in 1..Head(pg).n |-> ButtonStyle(Head(pg).el)]
          ELSE <<>>)
             \o ButtonStyles(Tail(pg))

\* deduplicate by default state background color
RECURSIVE UniqueButtons(_, _)
UniqueButtons(styles, seen) ==
    IF styles = <<>> THEN <<>>
    ELSE LET key == Head(styles).states.default.backgroundColor
         IN IF key \in seen THEN UniqueButtons(Tail(styles), seen)
            ELSE <<Head(styles)>> \o UniqueButtons(Tail(styles), seen \cup {key})

\* uniqueButtons.slice(0, 15)
ButtonLimit == 15

extractButtonStyles(pg) == SliceTo(UniqueButtons(ButtonStyles(pg), {}), ButtonLimit)

\* darkModeButtons.map((btn) => ({ ...btn, source: "dark-mode" }))
TagSource(list, source) == [i \in 1..Len(list) |-> [list[i] EXCEPT !.source = source]]

maxAttempts == 2

\* document.body.textContent.length of a loaded page
ContentLengths == {0, 100, 101, 500, 501}

OtherExtractorNames ==
    <<"extractLogo", "extractTypography", "extractSpacing", "extractBorderRadius",
      "extractBorders", "extractShadows", "extractInputStyles", "extractBadgeStyles",
      "extractBreakpoints", "detectIconSystem", "detectFrameworks">>

\* the extractors of the Promise.all batch
Extractors ==
    {"extractColors", "extractButtonStyles", "extractLinkStyles"}
        \cup {OtherExtractorNames[i] : i \in 1..NumOtherExtractors}

\* a join in the manner of Promise.allSettled: waits for every extractor and
\* never rejects
JoinSettled(e) ==
    IF \A x \in DOMAIN e : e[x] \in {"done", "failed"} THEN "resolve" ELSE "pending"
\* a join that resolves as soon as one extractor has fulfilled
JoinRace(e) ==
    IF \E x \in DOMAIN e : e[x] = "failed" THEN "reject"
    ELSE IF \E x \in DOMAIN e : e[x] = "done" THEN "resolve"
    ELSE "pending"
\* Promise.all over the batch: rejects on the first rejection, resolves when
\* every extractor has fulfilled
PromiseAll(e) ==
    IF \E x \in DOMAIN e : e[x] = "failed" THEN "reject"
    ELSE IF \A x \in DOMAIN e : e[x] = "done" THEN "resolve"
    ELSE "pending"

\* ---- the hover/focus probe ----

\* the colours read from one getComputedStyle
Style(color, bg, border, outline) ==
    [color |-> color, backgroundColor |-> bg, borderColor |-> border,
     outlineColor |-> outline]

\* An interactive element: the await that throws for it ("none", "isVisible",
\* "beforeState", "afterHover", "focus", "afterFocus"), whether it is visible,
\* its tag, and its styles before the hover, after it and after the focus.
Interactive(failAt, visible, tag, before, afterHover, afterFocus) ==
    [failAt |-> failAt, visible |-> visible, tag |-> tag, beforeState |-> before,
     afterHover |-> afterHover, afterFocus |-> afterFocus]

LinkRest == Style(Black, TransparentRgba, <<Black>>, TransparentRgba)
LinkHover == Style(Blue1Alpha, TransparentRgba, <<Blue1Alpha>>, TransparentRgba)
ButtonRest == Style(White, Blue1, <<White>>, TransparentRgba)
ButtonHover == Style(White, Blue2, <<White>>, TransparentRgba)
ButtonFocus == Style(White, Blue2, <<White>>, Red)
InputRest == Style(Black, White, <<Grey130>>, TransparentRgba)
InputFocus == Style(Black, White, <<Blue1>>, Blue1)

ProbeCases ==
    {Interactive("none", TRUE, "a", LinkRest, LinkHover, LinkHover),
     Interactive("isVisible", TRUE, "a", LinkRest, LinkHover, LinkHover),
     Interactive("none", FALSE, "a", LinkRest, LinkHover, LinkHover),
     Interactive("afterHover", TRUE, "a", LinkRest, LinkHover, LinkHover),
     Interactive("none", TRUE, "button", ButtonRest, ButtonHover, ButtonFocus),
     Interactive("focus", TRUE, "button", ButtonRest, ButtonHover, ButtonFocus),
     Interactive("none", TRUE, "input", InputRest, InputRest, InputFocus)}

\* interactiveElements.slice(0, 20)
SampleLimit == 20

\* splitMultiValueColors: the colour tokens of a value, transparent ones dropped
splitMultiValueColors(colorValue) ==
    SelectSeq(colorValue,
              LAMBDA c : /\ c # TransparentWord
                         /\ c # TransparentRgba
                         /\ TextLength(c) > 3)

Observation(color, property, state, tag) ==
    [color |-> color, property |-> property, state |-> state, element |-> tag]

Contains(seq, x) == \E i \in 1..Len(seq) : seq[i] = x

\* the colours of `colors` that are not in `before`, as observations
NewBorderColors(colors, before, state, tag) ==
    LET fresh == SelectSeq(colors, LAMBDA c : ~Contains(before, c))
    IN [i \in 1..Len(fresh) |-> Observation(fresh[i], "border-color", state, tag)]

\* the observations pushed after the hover of element el
HoverObservations(el) ==
    LET b == el.beforeState
        h == el.afterHover
    IN (IF /\ h.color # b.color
           /\ h.color # TransparentRgba
           /\ h.color # TransparentWord
        THEN <<Observation(h.color, "color", "hover", el.tag)>> ELSE <<>>)
       \o
       (IF /\ h.backgroundColor # b.backgroundColor
           /\ h.backgroundColor # TransparentRgba
           /\ h.backgroundColor # TransparentWord
        THEN <<Observation(h.backgroundColor, "background-color", "hover", el.tag)>>
        ELSE <<>>)
       \o
       (IF h.borderColor # b.borderColor
        THEN NewBorderColors(splitMultiValueColors(h.borderColor),
                             splitMultiValueColors(b.borderColor), "hover", el.tag)
        ELSE <<>>)

\* the observations pushed after the focus of element el
FocusObservations(el) ==
    LET b == el.beforeState
        h == el.afterHover
        f == el.afterFocus
    IN (IF /\ f.outlineColor # Text(<<>>)
           /\ f.outlineColor # TransparentRgba
           /\ f.outlineColor # TransparentWord
           /\ f.outlineColor # b.color
        THEN <<Observation(f.outlineColor, "outline-color", "focus", el.tag)>>
        ELSE <<>>)
       \o
       (IF f.borderColor # b.borderColor /\ f.borderColor # h.borderColor
        THEN NewBorderColors(splitMultiValueColors(f.borderColor),
                             splitMultiValueColors(b.borderColor), "focus", el.tag)
        ELSE <<>>)

\* what one iteration of the probe loop leaves: the observations pushed, the
\* page mutations made, whether a catch block swallowed a failure, and whether
\* an error leaves the loop
Iteration(observations, muts, swallowed, throws) ==
    [observations |-> observations, mutations |-> muts, caught |-> swallowed,
     throws |-> throws]

\* a handler that lets the failure leave the loop
Rethrow(observations, muts) == Iteration(<<>>, muts, TRUE, TRUE)

\* the two catch blocks of the loop body: the failure is dropped, what was
\* pushed before it stays
Catch(observations, muts) == Iteration(observations, muts, TRUE, FALSE)

\* the body of `for (const element of sampled)`
ProbeIteration(el) ==
    IF el.failAt = "isVisible" THEN Catch(<<>>, <<>>)
    ELSE IF ~el.visible THEN Iteration(<<>>, <<>>, FALSE, FALSE)
    ELSE IF el.failAt = "beforeState" THEN Catch(<<>>, <<>>)
    ELSE IF el.failAt = "afterHover" THEN Catch(<<>>, <<"hover">>)
    ELSE IF el.tag \notin {"input", "textarea", "select", "button"}
         THEN Iteration(HoverObservations(el), <<"hover">>, FALSE, FALSE)
    ELSE IF el.failAt = "focus" THEN Catch(HoverObservations(el), <<"hover">>)
    ELSE IF el.failAt = "afterFocus"
         THEN Catch(HoverObservations(el), <<"hover", "focus">>)
    ELSE Iteration(HoverObservations(el) \o FocusObservations(el),
                   <<"hover", "focus">>, FALSE, FALSE)

\* ---- the merges into colors.palette ----

\* the normalization of the hover/focus merge
hoverNormalized(color) ==
    IF color.fmt \in {"rgb", "rgba"}
    THEN Text(<<"#">> \o padStart2(toString16(color.nums[1]))
                      \o padStart2(toString16(color.nums[2]))
                      \o padStart2(toString16(color.nums[3])))
    ELSE Text(toLowerCase(color.chars))

\* one iteration of hoverFocusColors.forEach
MergeHoverColor(pal, color) ==
    LET isDuplicate == \E i \in 1..Len(pal) : pal[i].color = color
    IN IF ~isDuplicate /\ color # Text(<<>>)
       THEN Append(pal, [color |-> color, normalized |-> hoverNormalized(color),
                         count |-> 1, confidence |-> "medium",
                         sources |-> <<"hover/focus">>, source |-> ""])
       ELSE pal

RECURSIVE MergeHoverColors(_, _)
MergeHoverColors(pal, observations) ==
    IF observations = <<>> THEN pal
    ELSE MergeHoverColors(MergeHoverColor(pal, Head(observations).color),
                          Tail(observations))

\* the merge of a re-extracted palette: an entry is appended, tagged with its
\* source, unless an entry of the same normalized colour is in the palette
RECURSIVE MergePalette(_, _, _)
MergePalette(mergedPalette, incoming, source) ==
    IF incoming = <<>> THEN mergedPalette
    ELSE LET c == Head(incoming)
             isDuplicate == \E i \in 1..Len(mergedPalette) :
                               mergedPalette[i].normalized = c.normalized
         IN MergePalette(IF ~isDuplicate
                         THEN Append(mergedPalette, [c EXCEPT !.source = source])
                         ELSE mergedPalette,
                         Tail(incoming), source)

\* the phase that follows the hover/focus merge, and the dark-mode pass
AfterDark(o) == IF o.mobile THEN "mobileViewport" ELSE "canvas"
AfterHover(o) == IF o.darkMode THEN "darkTheme" ELSE AfterDark(o)

NoResult == [returned |-> FALSE, categories |-> <<>>, palette |-> <<>>,
             buttons |-> <<>>, isCanvasOnly |-> FALSE]

\* the values the variables of one specification keep under the other
IdleColors ==
    /\ cpc = "idle"
    /\ page = <<>>
    /\ scanned = 0
    /\ totalElements = 0
    /\ colorMap = <<>>
    /\ semanticColors = NoSemanticColors
    /\ palette = <<>>
    /\ clusters = <<>>
    /\ perceptuallyDeduped = <<>>

NoGeometry == [spacing |-> <<>>, borderRadius |-> <<>>, borders |-> <<>>,
               shadows |-> <<>>]

IdleCall ==
    /\ callPc = "idle"
    /\ argument = <<>>
    /\ returnValue = <<>>

IdleGeometry ==
    /\ gpc = "idle"
    /\ gpage = <<>>
    /\ gscanned = 0
    /\ spacings = <<>>
    /\ radii = <<>>
    /\ combinations = <<>>
    /\ shadows = <<>>
    /\ geometry = NoGeometry

IdleCli ==
    /\ cliPc = "idle"
    /\ opts = [browser |-> "chromium", jsonOnly |-> FALSE, saveOutput |-> FALSE,
               dtcg |-> FALSE]
    /\ useHeaded = FALSE
    /\ browser = "null"
    /\ launched = <<>>
    /\ closed = 0
    /\ err = "none"
    /\ written = "no"
    /\ printed = <<>>
    /\ exitCode = -1

IdleBranding ==
    /\ pc = "idle"
    /\ options = [darkMode |-> FALSE, mobile |-> FALSE]
    /\ site = SiteStatic
    /\ pageState = InitialPageState
    /\ attempts = 0
    /\ validated = FALSE
    /\ contentLength = -1
    /\ ext = [e \in Extractors |-> "idle"]
    /\ batchError = "none"
    /\ colorsPalette = <<>>
    /\ buttons = <<>>
    /\ darkModeButtons = <<>>
    /\ sampled = <<>>
    /\ probeIndex = 0
    /\ hoverFocusColors = <<>>
    /\ caught = {}
    /\ darkModeColors = <<>>
    /\ mutations = <<>>
    /\ completed = <<>>
    /\ error = "none"
    /\ result = NoResult

----------------------------------------------------------------------------
(* SpecColors: one extractColors pass *)

InitColors ==
    /\ IdleBranding
    /\ IdleCli
    /\ IdleGeometry
    /\ IdleCall
    /\ page \in InputPages
    /\ cpc = "scan"
    /\ scanned = 0
    /\ totalElements = CountElements(page)
    /\ colorMap = <<>>
    /\ semanticColors = NoSemanticColors
    /\ palette = <<>>
    /\ clusters = <<>>
    /\ perceptuallyDeduped = <<>>

\* elements.forEach over the next run of elements
ScanStep ==
    /\ cpc = "scan"
    /\ scanned < Len(page)
    /\ colorMap' = ScanRun(colorMap, page[scanned + 1].el, page[scanned + 1].n)
    /\ semanticColors' = SemanticRun(semanticColors, page[scanned + 1].el,
                                     page[scanned + 1].n)
    /\ scanned' = scanned + 1
    /\ UNCHANGED <<cpc, page, totalElements, palette, clusters, perceptuallyDeduped>>
    /\ UNCHANGED <<brandVars, cliVars, geoVars, callVars>>

\* threshold, filter, map and sort
FilterStep ==
    /\ cpc = "scan"
    /\ scanned = Len(page)
    /\ palette' = BuildPalette(colorMap, totalElements)
    /\ cpc' = "dedup"
    /\ UNCHANGED <<page, scanned, totalElements, colorMap, semanticColors, clusters,
                   perceptuallyDeduped>>
    /\ UNCHANGED <<brandVars, cliVars, geoVars, callVars>>

\* the perceptual de-duplication loop and the return of the palette
DedupStep ==
    /\ cpc = "dedup"
    /\ clusters' = DedupClusters(palette)
    /\ perceptuallyDeduped' = DedupedPalette(clusters')
    /\ cpc' = "done"
    /\ UNCHANGED <<page, scanned, totalElements, colorMap, semanticColors, palette>>
    /\ UNCHANGED <<brandVars, cliVars, geoVars, callVars>>

NextColors == ScanStep \/ FilterStep \/ DedupStep

SpecColors == InitColors /\ [][NextColors]_vars

----------------------------------------------------------------------------
(* Spec: extractBranding *)

Init ==
    /\ IdleColors
    /\ IdleCli
    /\ IdleGeometry
    /\ IdleCall
    /\ pc = "nav"
    /\ options \in [darkMode : BOOLEAN, mobile : BOOLEAN]
    /\ site \in Sites
    /\ pageState = InitialPageState
    /\ attempts = 0
    /\ validated = FALSE
    /\ contentLength = -1
    /\ ext = [e \in Extractors |-> "idle"]
    /\ batchError = "none"
    /\ colorsPalette = <<>>
    /\ buttons = <<>>
    /\ darkModeButtons = <<>>
    /\ sampled = <<>>
    /\ probeIndex = 0
    /\ hoverFocusColors = <<>>
    /\ caught = {}
    /\ darkModeColors = <<>>
    /\ mutations = <<>>
    /\ completed = <<>>
    /\ error = "none"
    /\ result = NoResult

\* a navigation loop whose catch block rethrows at once
NavAttemptNoRetry ==
    /\ pc = "nav"
    /\ attempts < maxAttempts
    /\ attempts' = attempts + 1
    /\ \E goto \in {"throws", "loads"}, len \in ContentLengths :
          IF goto = "throws"
          THEN /\ validated' = validated
               /\ contentLength' = -1
               /\ IF attempts' >= 1
                  THEN pc' = "failed" /\ error' = "navigation"
                  ELSE pc' = "nav" /\ error' = error
          ELSE /\ error' = error
               /\ contentLength' = len
               /\ IF len > 100
                  THEN pc' = "batch" /\ validated' = TRUE
                  ELSE /\ validated' = FALSE
                       /\ pc' = IF attempts' < maxAttempts THEN "nav" ELSE "batch"
    /\ UNCHANGED <<options, site, buttons, darkModeButtons, pageState, ext, batchError, colorsPalette,
                   sampled, probeIndex, hoverFocusColors, caught, darkModeColors,
                   mutations, completed, result>>
    /\ UNCHANGED <<colorVars, cliVars, geoVars, callVars>>

\* a navigation loop that gives up when the last attempt fails the content check
NavAttemptStrict ==
    /\ pc = "nav"
    /\ attempts < maxAttempts
    /\ attempts' = attempts + 1
    /\ \E goto \in {"throws", "loads"}, len \in ContentLengths :
          IF goto = "throws"
          THEN /\ validated' = validated
               /\ contentLength' = -1
               /\ IF attempts' >= maxAttempts
                  THEN pc' = "failed" /\ error' = "navigation"
                  ELSE pc' = "nav" /\ error' = error
          ELSE /\ error' = error
               /\ contentLength' = len
               /\ IF len > 100
                  THEN pc' = "batch" /\ validated' = TRUE
                  ELSE /\ validated' = FALSE
                       /\ pc' = IF attempts' < maxAttempts THEN "nav" ELSE "failed"
    /\ UNCHANGED <<options, site, buttons, darkModeButtons, pageState, ext, batchError, colorsPalette,
                   sampled, probeIndex, hoverFocusColors, caught, darkModeColors,
                   mutations, completed, result>>
    /\ UNCHANGED <<colorVars, cliVars, geoVars, callVars>>

\* One pass of the navigation loop: page.goto throws or loads the page, the
\* waits run, and the content length is checked.
NavAttempt ==
    /\ pc = "nav"
    /\ attempts < maxAttempts
    /\ attempts' = attempts + 1
    /\ \E goto \in {"throws", "loads"}, len \in ContentLengths :
          IF goto = "throws"
          THEN /\ validated' = validated
               /\ contentLength' = -1
               /\ IF attempts' >= maxAttempts
                  THEN pc' = "failed" /\ error' = "navigation"
                  ELSE pc' = "nav" /\ error' = error
          ELSE /\ error' = error
               /\ contentLength' = len
               /\ IF len > 100
                  THEN pc' = "batch" /\ validated' = TRUE
                  ELSE /\ validated' = FALSE
                       /\ pc' = IF attempts' < maxAttempts THEN "nav" ELSE "batch"
    /\ UNCHANGED <<options, site, buttons, darkModeButtons, pageState, ext, batchError, colorsPalette,
                   sampled, probeIndex, hoverFocusColors, caught, darkModeColors,
                   mutations, completed, result>>
    /\ UNCHANGED <<colorVars, cliVars, geoVars, callVars>>

\* Promise.all([...]): every extractor is started (the loop's contentLength
\* is out of scope here).
StartBatch ==
    /\ pc = "batch"
    /\ ext' = [e \in Extractors |-> "running"]
    /\ pc' = "await"
    /\ contentLength' = -1
    /\ UNCHANGED <<options, site, buttons, darkModeButtons, pageState, attempts, validated, batchError,
                   colorsPalette, sampled, probeIndex, hoverFocusColors, caught,
                   darkModeColors, mutations, completed, error, result>>
    /\ UNCHANGED <<colorVars, cliVars, geoVars, callVars>>

\* An extractor of the batch returns its category.
ExtractorFulfils(e) ==
    /\ ext[e] = "running"
    /\ ext' = [ext EXCEPT ![e] = "done"]
    /\ UNCHANGED <<pc, options, site, buttons, darkModeButtons, pageState, attempts, validated, contentLength, batchError,
                   colorsPalette, sampled, probeIndex, hoverFocusColors, caught,
                   darkModeColors, mutations, completed, error, result>>
    /\ UNCHANGED <<colorVars, cliVars, geoVars, callVars>>

\* An extractor of the batch throws.
ExtractorRejects(e) ==
    /\ ext[e] = "running"
    /\ ext' = [ext EXCEPT ![e] = "failed"]
    /\ batchError' = IF batchError = "none" THEN e ELSE batchError
    /\ UNCHANGED <<pc, options, site, buttons, darkModeButtons, pageState, attempts, validated, contentLength,
                   colorsPalette, sampled, probeIndex, hoverFocusColors, caught,
                   darkModeColors, mutations, completed, error, result>>
    /\ UNCHANGED <<colorVars, cliVars, geoVars, callVars>>

\* The await of Promise.all resolves: the categories are destructured.
BatchResolves ==
    /\ pc = "await"
    /\ PromiseAll(ext) = "resolve"
    /\ colorsPalette' = IF ext["extractColors"] = "done"
                        THEN extractColorsPalette(Render(site, pageState))
                        ELSE <<>>
    /\ buttons' = IF ext["extractButtonStyles"] = "done"
                  THEN extractButtonStyles(Render(site, pageState))
                  ELSE <<>>
    /\ completed' = Append(completed, "batch")
    /\ pc' = "probeStart"
    /\ UNCHANGED <<options, site, darkModeButtons, pageState, attempts, validated, contentLength, ext,
                   batchError, sampled, probeIndex, hoverFocusColors, caught,
                   darkModeColors, mutations, error, result>>
    /\ UNCHANGED <<colorVars, cliVars, geoVars, callVars>>

\* The await of Promise.all rejects with the first rejection; the catch block
\* of extractBranding rethrows it.
BatchRejects ==
    /\ pc = "await"
    /\ PromiseAll(ext) = "reject"
    /\ pc' = "failed"
    /\ error' = batchError
    /\ UNCHANGED <<options, site, buttons, darkModeButtons, pageState, attempts, validated, contentLength, ext,
                   batchError, colorsPalette, sampled, probeIndex,
                   hoverFocusColors, caught, darkModeColors, mutations,
                   completed, result>>
    /\ UNCHANGED <<colorVars, cliVars, geoVars, callVars>>

\* page.$$ returns the interactive elements, of which the first 20 are sampled.
StartProbe ==
    /\ pc = "probeStart"
    /\ \E n \in 0..MaxSampled : \E els \in [1..n -> ProbeCases] :
          sampled' = IF Len(els) > SampleLimit THEN SubSeq(els, 1, SampleLimit) ELSE els
    /\ probeIndex' = 0
    /\ pc' = "probe"
    /\ UNCHANGED <<options, site, buttons, darkModeButtons, pageState, attempts, validated, contentLength, ext,
                   batchError, colorsPalette, hoverFocusColors, caught,
                   darkModeColors, mutations, completed, error, result>>
    /\ UNCHANGED <<colorVars, cliVars, geoVars, callVars>>

\* One iteration of the probe loop, with its two try/catch blocks.
ProbeElement ==
    /\ pc = "probe"
    /\ probeIndex < Len(sampled)
    /\ LET it == ProbeIteration(sampled[probeIndex + 1])
       IN /\ mutations' = mutations \o it.mutations
          /\ hoverFocusColors' = hoverFocusColors \o it.observations
          /\ caught' = IF it.caught THEN caught \cup {probeIndex + 1} ELSE caught
          /\ IF it.throws
             THEN pc' = "failed" /\ error' = "hover/focus" /\ probeIndex' = probeIndex
             ELSE pc' = "probe" /\ error' = error /\ probeIndex' = probeIndex + 1
    /\ UNCHANGED <<options, site, buttons, darkModeButtons, pageState, attempts, validated, contentLength, ext,
                   batchError, colorsPalette, sampled, darkModeColors, completed,
                   result>>
    /\ UNCHANGED <<colorVars, cliVars, geoVars, callVars>>

\* After the loop: the mouse is moved away and the observations are merged
\* into colors.palette.
HoverMerge ==
    /\ pc = "probe"
    /\ probeIndex = Len(sampled)
    /\ mutations' = Append(mutations, "mouseMove")
    /\ colorsPalette' = MergeHoverColors(colorsPalette, hoverFocusColors)
    /\ completed' = Append(completed, "hover")
    /\ pc' = AfterHover(options)
    /\ UNCHANGED <<options, site, buttons, darkModeButtons, pageState, attempts, validated, contentLength, ext,
                   batchError, sampled, probeIndex, hoverFocusColors, caught,
                   darkModeColors, error, result>>
    /\ UNCHANGED <<colorVars, cliVars, geoVars, callVars>>

\* Dark mode: the theme attributes and classes are set (or page.evaluate throws).
DarkTheme ==
    /\ pc = "darkTheme"
    /\ \E ok \in BOOLEAN :
          IF ok
          THEN /\ pageState' = [pageState EXCEPT !.theme = TRUE]
               /\ mutations' = Append(mutations, "theme")
               /\ pc' = "darkMedia"
               /\ error' = error
          ELSE /\ pc' = "failed"
               /\ error' = "darkMode"
               /\ UNCHANGED <<pageState, mutations>>
    /\ UNCHANGED <<options, site, buttons, darkModeButtons, attempts, validated, contentLength, ext, batchError,
                   colorsPalette, sampled, probeIndex, hoverFocusColors, caught,
                   darkModeColors, completed, result>>
    /\ UNCHANGED <<colorVars, cliVars, geoVars, callVars>>

\* Dark mode: page.emulateMedia({ colorScheme: 'dark' }).
DarkMedia ==
    /\ pc = "darkMedia"
    /\ pageState' = [pageState EXCEPT !.colorScheme = "dark"]
    /\ mutations' = Append(mutations, "emulateMedia")
    /\ pc' = "darkSettle"
    /\ UNCHANGED <<options, site, buttons, darkModeButtons, attempts, validated, contentLength, ext, batchError,
                   colorsPalette, sampled, probeIndex, hoverFocusColors, caught,
                   darkModeColors, completed, error, result>>
    /\ UNCHANGED <<colorVars, cliVars, geoVars, callVars>>

\* Dark mode: the settle wait.
DarkSettle ==
    /\ pc = "darkSettle"
    /\ pc' = "darkColors"
    /\ UNCHANGED <<options, site, buttons, darkModeButtons, pageState, attempts, validated, contentLength, ext,
                   batchError, colorsPalette, sampled, probeIndex,
                   hoverFocusColors, caught, darkModeColors, mutations,
                   completed, error, result>>
    /\ UNCHANGED <<colorVars, cliVars, geoVars, callVars>>

\* Dark mode: extractColors is run again (or throws).
DarkColors ==
    /\ pc = "darkColors"
    /\ \E ok \in BOOLEAN :
          IF ok
          THEN /\ darkModeColors' = extractColorsPalette(Render(site, pageState))
               /\ pc' = "darkButtons"
               /\ error' = error
          ELSE /\ pc' = "failed"
               /\ error' = "darkMode"
               /\ UNCHANGED darkModeColors
    /\ UNCHANGED <<options, site, buttons, darkModeButtons, pageState, attempts, validated, contentLength, ext,
                   batchError, colorsPalette, sampled, probeIndex,
                   hoverFocusColors, caught, mutations, completed, result>>
    /\ UNCHANGED <<colorVars, cliVars, geoVars, callVars>>

\* Dark mode: extractButtonStyles is run again (or throws).
DarkButtons ==
    /\ pc = "darkButtons"
    /\ \E ok \in BOOLEAN :
          IF ok
          THEN /\ darkModeButtons' = extractButtonStyles(Render(site, pageState))
               /\ pc' = "darkLinks"
               /\ error' = error
          ELSE /\ pc' = "failed"
               /\ error' = "darkMode"
               /\ UNCHANGED darkModeButtons
    /\ UNCHANGED <<options, site, buttons, pageState, attempts, validated, contentLength, ext,
                   batchError, colorsPalette, sampled, probeIndex,
                   hoverFocusColors, caught, darkModeColors, mutations,
                   completed, result>>
    /\ UNCHANGED <<colorVars, cliVars, geoVars, callVars>>

\* Dark mode: extractLinkStyles is run again (or throws), then the dark palette
\* is merged into colors.palette and the dark-mode buttons are pushed onto
\* buttons.
DarkLinks ==
    /\ pc = "darkLinks"
    /\ \E ok \in BOOLEAN :
          IF ok
          THEN /\ colorsPalette' = MergePalette(colorsPalette, darkModeColors, "dark-mode")
               /\ buttons' = buttons \o TagSource(darkModeButtons, "dark-mode")
               /\ completed' = Append(completed, "dark")
               /\ pc' = AfterDark(options)
               /\ error' = error
          ELSE /\ pc' = "failed"
               /\ error' = "darkMode"
               /\ UNCHANGED <<colorsPalette, buttons, completed>>
    /\ UNCHANGED <<options, site, darkModeButtons, pageState, attempts, validated, contentLength, ext,
                   batchError, sampled, probeIndex, hoverFocusColors, caught,
                   darkModeColors, mutations, result>>
    /\ UNCHANGED <<colorVars, cliVars, geoVars, callVars>>

\* Mobile: page.setViewportSize({ width: 390, height: 844 }).
MobileViewport ==
    /\ pc = "mobileViewport"
    /\ pageState' = [pageState EXCEPT !.viewport = "mobile"]
    /\ mutations' = Append(mutations, "viewport")
    /\ pc' = "mobileSettle"
    /\ UNCHANGED <<options, site, buttons, darkModeButtons, attempts, validated, contentLength, ext, batchError,
                   colorsPalette, sampled, probeIndex, hoverFocusColors, caught,
                   darkModeColors, completed, error, result>>
    /\ UNCHANGED <<colorVars, cliVars, geoVars, callVars>>

\* Mobile: the settle wait.
MobileSettle ==
    /\ pc = "mobileSettle"
    /\ pc' = "mobileColors"
    /\ UNCHANGED <<options, site, buttons, darkModeButtons, pageState, attempts, validated, contentLength, ext,
                   batchError, colorsPalette, sampled, probeIndex,
                   hoverFocusColors, caught, darkModeColors, mutations,
                   completed, error, result>>
    /\ UNCHANGED <<colorVars, cliVars, geoVars, callVars>>

\* Mobile: extractColors is run again (or throws), then the mobile palette is
\* merged into colors.palette.
MobileColors ==
    /\ pc = "mobileColors"
    /\ \E ok \in BOOLEAN :
          IF ok
          THEN /\ colorsPalette' = MergePalette(colorsPalette,
                                      extractColorsPalette(Render(site, pageState)),
                                      "mobile")
               /\ completed' = Append(completed, "mobile")
               /\ pc' = "canvas"
               /\ error' = error
          ELSE /\ pc' = "failed"
               /\ error' = "mobile"
               /\ UNCHANGED <<colorsPalette, completed>>
    /\ UNCHANGED <<options, site, buttons, darkModeButtons, pageState, attempts, validated, contentLength, ext,
                   batchError, sampled, probeIndex, hoverFocusColors, caught,
                   darkModeColors, mutations, result>>
    /\ UNCHANGED <<colorVars, cliVars, geoVars, callVars>>

\* The result is assembled, the canvas-only check runs (or throws), and the
\* result is returned.
ReturnResult ==
    /\ pc = "canvas"
    /\ \E ok \in BOOLEAN, isCanvasOnly \in BOOLEAN :
          IF ok
          THEN /\ result' = [returned |-> TRUE, categories |-> ext,
                             palette |-> colorsPalette, buttons |-> buttons,
                             isCanvasOnly |-> isCanvasOnly]
               /\ pc' = "done"
               /\ error' = error
          ELSE /\ pc' = "failed"
               /\ error' = "canvas"
               /\ UNCHANGED result
    /\ UNCHANGED <<options, site, buttons, darkModeButtons, pageState, attempts, validated, contentLength, ext,
                   batchError, colorsPalette, sampled, probeIndex,
                   hoverFocusColors, caught, darkModeColors, mutations,
                   completed>>
    /\ UNCHANGED <<colorVars, cliVars, geoVars, callVars>>

Next ==
    \/ NavAttempt
    \/ StartBatch
    \/ \E e \in Extractors : ExtractorFulfils(e)
    \/ \E e \in Extractors : ExtractorRejects(e)
    \/ BatchResolves
    \/ BatchRejects
    \/ StartProbe
    \/ ProbeElement
    \/ HoverMerge
    \/ DarkTheme
    \/ DarkMedia
    \/ DarkSettle
    \/ DarkColors
    \/ DarkButtons
    \/ DarkLinks
    \/ MobileViewport
    \/ MobileSettle
    \/ MobileColors
    \/ ReturnResult

Spec == Init /\ [][Next]_vars

----------------------------------------------------------------------------
(* SpecCli: the command-line action of index.js *)

\* An error extractBranding throws, by what its message includes.
ErrorMessages == {"Timeout", "net::ERR_", "other"}

\* err.message.includes("Timeout") || err.message.includes("net::ERR_")
LooksLikeBotDetection(message) == message \in {"Timeout", "net::ERR_"}

\* a save decided by --save-output and --dtcg alone
SaveIgnoringJsonOnly(o) == o.saveOutput \/ o.dtcg

\* (opts.saveOutput || opts.dtcg) && !opts.jsonOnly
SaveCondition(o) == (o.saveOutput \/ o.dtcg) /\ ~o.jsonOnly

\* the outer catch: spinner.fail, the error report and process.exit(1), which
\* ends the process before the finally block
OuterCatch(e) ==
    /\ err' = e
    /\ exitCode' = 1
    /\ cliPc' = "exited"

InitCli ==
    /\ IdleColors
    /\ IdleBranding
    /\ IdleGeometry
    /\ IdleCall
    /\ cliPc = "launch"
    /\ opts \in [browser : {"chromium", "firefox"}, jsonOnly : BOOLEAN,
                 saveOutput : BOOLEAN, dtcg : BOOLEAN]
    /\ useHeaded = FALSE
    /\ browser = "null"
    /\ launched = <<>>
    /\ closed = 0
    /\ err = "none"
    /\ written = "no"
    /\ printed = <<>>
    /\ exitCode = -1

\* a launch that is headless whatever useHeaded is
LaunchAlwaysHeadless ==
    /\ cliPc = "launch"
    /\ browser' = "headless"
    /\ launched' = Append(launched, [type |-> opts.browser, mode |-> browser'])
    /\ cliPc' = "extract"
    /\ UNCHANGED <<opts, useHeaded, closed, err, written, printed, exitCode>>
    /\ UNCHANGED <<colorVars, brandVars, geoVars, callVars>>

\* browserType.launch({headless: !useHeaded, ...}) returns a browser
Launch ==
    /\ cliPc = "launch"
    /\ browser' = IF useHeaded THEN "headed" ELSE "headless"
    /\ launched' = Append(launched, [type |-> opts.browser, mode |-> browser'])
    /\ cliPc' = "extract"
    /\ UNCHANGED <<opts, useHeaded, closed, err, written, printed, exitCode>>
    /\ UNCHANGED <<colorVars, brandVars, geoVars, callVars>>

\* browserType.launch throws
LaunchThrows ==
    /\ cliPc = "launch"
    /\ OuterCatch("launch")
    /\ UNCHANGED <<opts, useHeaded, browser, launched, closed, written, printed>>
    /\ UNCHANGED <<colorVars, brandVars, geoVars, callVars>>

\* extractBranding returns its result
ExtractReturns ==
    /\ cliPc = "extract"
    /\ cliPc' = "convert"
    /\ UNCHANGED <<opts, useHeaded, browser, launched, closed, err, written, printed,
                   exitCode>>
    /\ UNCHANGED <<colorVars, brandVars, geoVars, callVars>>

\* extractBranding throws: the catch block of the launch loop
ExtractThrows ==
    /\ cliPc = "extract"
    /\ \E message \in ErrorMessages :
          /\ browser' = "null"
          /\ closed' = closed + 1
          /\ IF useHeaded
             THEN OuterCatch(message) /\ useHeaded' = useHeaded
             ELSE IF LooksLikeBotDetection(message)
             THEN /\ useHeaded' = TRUE
                  /\ cliPc' = "launch"
                  /\ UNCHANGED <<err, exitCode>>
             ELSE OuterCatch(message) /\ useHeaded' = useHeaded
    /\ UNCHANGED <<opts, launched, written, printed>>
    /\ UNCHANGED <<colorVars, brandVars, geoVars, callVars>>

\* const outputData = opts.dtcg ? toW3CFormat(result) : result
Convert ==
    /\ cliPc = "convert"
    /\ \E converts \in (IF opts.dtcg THEN BOOLEAN ELSE {TRUE}) :
          IF converts THEN cliPc' = "save" /\ UNCHANGED <<err, exitCode>>
          ELSE OuterCatch("toW3CFormat")
    /\ UNCHANGED <<opts, useHeaded, browser, launched, closed, written, printed>>
    /\ UNCHANGED <<colorVars, brandVars, geoVars, callVars>>

\* the save block: mkdirSync and writeFileSync, or the warning of its catch
SaveOutput ==
    /\ cliPc = "save"
    /\ IF SaveCondition(opts) THEN written' \in {"written", "failed"}
       ELSE written' = written
    /\ cliPc' = "output"
    /\ UNCHANGED <<opts, useHeaded, browser, launched, closed, err, printed, exitCode>>
    /\ UNCHANGED <<colorVars, brandVars, geoVars, callVars>>

\* the output to the terminal: the raw JSON, or displayResults(result)
Output ==
    /\ cliPc = "output"
    /\ \E displays \in (IF opts.jsonOnly THEN {TRUE} ELSE BOOLEAN) :
          IF displays
          THEN /\ printed' = Append(printed, IF opts.jsonOnly THEN "json" ELSE "display")
               /\ cliPc' = "finally"
               /\ UNCHANGED <<err, exitCode>>
          ELSE OuterCatch("displayResults") /\ printed' = printed
    /\ UNCHANGED <<opts, useHeaded, browser, launched, closed, written>>
    /\ UNCHANGED <<colorVars, brandVars, geoVars, callVars>>

\* finally: if (browser) await browser.close(); the process then ends
Finally ==
    /\ cliPc = "finally"
    /\ IF browser # "null" THEN browser' = "null" /\ closed' = closed + 1
       ELSE UNCHANGED <<browser, closed>>
    /\ exitCode' = 0
    /\ cliPc' = "exited"
    /\ UNCHANGED <<opts, useHeaded, launched, err, written, printed>>
    /\ UNCHANGED <<colorVars, brandVars, geoVars, callVars>>

NextCli ==
    \/ Launch
    \/ LaunchThrows
    \/ ExtractReturns
    \/ ExtractThrows
    \/ Convert
    \/ SaveOutput
    \/ Output
    \/ Finally

SpecCli == InitCli /\ [][NextCli]_vars

\* every await of the action settles, so the step after it is taken
SpecCliFair == SpecCli /\ WF_vars(NextCli)

----------------------------------------------------------------------------
(* The geometry extractors: spacing, border radius, borders, shadows *)

\* An element as the geometry extractors read it: tag, role and aria-label
\* attributes ("" when absent), the substrings its class names include, the
\* texts of margin-top, margin-bottom, padding-top and padding-bottom, and the
\* computed border radius, border width, style and colour and box shadow.
GeoElement(tag, role, ariaLabel, classes, spacing, radius, width, style, color, shadow) ==
    [tag |-> tag, role |-> role, ariaLabel |-> ariaLabel, classes |-> classes,
     spacing |-> spacing, borderRadius |-> radius, borderWidth |-> width,
     borderStyle |-> style, borderColor |-> color, boxShadow |-> shadow]

\* index of the record of a key in a Map kept as a sequence, 0 when absent
KeyIndex(map, key) ==
    IF \E i \in 1..Len(map) : map[i].key = key
    THEN CHOOSE i \in 1..Len(map) : map[i].key = key
    ELSE 0

\* Set.prototype.add on a Set kept in insertion order
SetAdd(set, x) == IF \E i \in 1..Len(set) : set[i] = x THEN set ELSE Append(set, x)

\* ---- extractSpacing ----

\* spacings.set(value, (spacings.get(value) || 0) + 1), `times` times
CountSpacing(map, value, times) ==
    IF ~(value > 0) THEN map
    ELSE LET i == KeyIndex(map, value)
         IN IF i = 0 THEN Append(map, [key |-> value, count |-> times])
            ELSE [map EXCEPT ![i].count = @ + times]

\* the four properties of n equal elements
SpacingRun(map, el, n) ==
    IF n = 0 THEN map
    ELSE CountSpacing(CountSpacing(CountSpacing(CountSpacing(map,
             parseFloat(el.spacing[1]), n), parseFloat(el.spacing[2]), n),
             parseFloat(el.spacing[3]), n), parseFloat(el.spacing[4]), n)

\* (px / 16).toFixed(2) + "rem", px in tenths
RemText(t) ==
    LET h == (5 * t + 4) \div 8
    IN IntToString(h \div 100)
           \o <<".", DigitChars[((h \div 10) % 10) + 1], DigitChars[(h % 10) + 1]>>
           \o <<"r", "e", "m">>

\* slice(0, 20) of the spacing values
SpacingLimit == 20

\* the entries kept: the SpacingLimit most frequent, then by numeric value
CommonValues(map) ==
    LET byCount == StableSort(map, [i \in 1..Len(map), j \in 1..Len(map) |->
                                      map[j].count - map[i].count < 0])
        top == SliceTo(byCount, SpacingLimit)
        mapped == [i \in 1..Len(top) |->
                     [px |-> PxText(top[i].key), rem |-> RemText(top[i].key),
                      count |-> top[i].count, numericValue |-> top[i].key]]
    IN StableSort(mapped, [i \in 1..Len(mapped), j \in 1..Len(mapped) |->
                             mapped[i].numericValue - mapped[j].numericValue < 0])

\* a grid inference that looks for multiples of 4 first
ScaleTypeFourFirst(values) ==
    IF \E i \in 1..Len(values) : IsMultipleOf(parseFloat(values[i].px), 4) THEN "4px"
    ELSE IF \E i \in 1..Len(values) : IsMultipleOf(parseFloat(values[i].px), 8) THEN "8px"
    ELSE "custom"

\* is8px ? "8px" : is4px ? "4px" : "custom"
ScaleType(values) ==
    LET is4px == \E i \in 1..Len(values) : IsMultipleOf(parseFloat(values[i].px), 4)
        is8px == \E i \in 1..Len(values) : IsMultipleOf(parseFloat(values[i].px), 8)
    IN IF is8px THEN "8px" ELSE IF is4px THEN "4px" ELSE "custom"

extractSpacingResult(map) ==
    [scaleType |-> ScaleType(CommonValues(map)), commonValues |-> CommonValues(map)]

\* ---- extractBorderRadius ----

HasClass(el, words) == el.classes \cap words # {}

\* the element context of extractBorderRadius
RadiusContext(el) ==
    LET role == IF el.role # "" THEN el.role ELSE el.ariaLabel
    IN IF role # "" THEN role
       ELSE IF HasClass(el, {"button", "btn"}) THEN "button"
       ELSE IF HasClass(el, {"card"}) THEN "card"
       ELSE IF HasClass(el, {"input", "field"}) THEN "input"
       ELSE IF HasClass(el, {"badge", "tag", "chip"}) THEN "badge"
       ELSE IF HasClass(el, {"modal", "dialog"}) THEN "modal"
       ELSE IF HasClass(el, {"image", "img", "avatar"}) THEN "image"
       ELSE el.tag

RadiusRun(map, el, n) ==
    IF n = 0 \/ el.borderRadius = <<>> \/ el.borderRadius = PxText(0) THEN map
    ELSE LET i == KeyIndex(map, el.borderRadius)
             data == IF i = 0 THEN [key |-> el.borderRadius, count |-> 0, elements |-> <<>>]
                     ELSE map[i]
             next == [data EXCEPT !.count = @ + n,
                                  !.elements = SetAdd(@, RadiusContext(el))]
         IN IF i = 0 THEN Append(map, next) ELSE [map EXCEPT ![i] = next]

\* count > 10 ? "high" : count > 3 ? "medium" : "low"
RadiusConfidence(count) ==
    IF count > 10 THEN "high" ELSE IF count > 3 THEN "medium" ELSE "low"

Includes(text, ch) == \E i \in 1..Len(text) : text[i] = ch

\* the compare function of the radius values, as "a before b"
RadiusBefore(a, b) ==
    IF Includes(a.value, "%") /\ ~Includes(b.value, "%") THEN FALSE
    ELSE IF ~Includes(a.value, "%") /\ Includes(b.value, "%") THEN TRUE
    ELSE a.numericValue - b.numericValue < 0

extractBorderRadiusResult(map) ==
    LET values == [i \in 1..Len(map) |->
                     [value |-> map[i].key, count |-> map[i].count,
                      elements |-> SliceTo(map[i].elements, 5),
                      confidence |-> RadiusConfidence(map[i].count),
                      numericValue |-> IF parseFloat(map[i].key) = NaN THEN 0
                                       ELSE parseFloat(map[i].key)]]
    IN StableSort(values, [i \in 1..Len(values), j \in 1..Len(values) |->
                             RadiusBefore(values[i], values[j])])

\* ---- extractBorders ----

\* borderColor.match(colorRegex) || [borderColor], then [0]: the first token
\* that is written as a colour function, else the whole value
FirstBorderColor(borderColor) ==
    LET matches == SelectSeq(borderColor, LAMBDA c : c.fmt \in {"rgb", "rgba"})
    IN IF matches # <<>> THEN <<matches[1]>> ELSE borderColor

\* the element context of extractBorders
BorderContext(el) ==
    IF el.role # "" THEN el.role
    ELSE IF HasClass(el, {"button", "btn"}) THEN "button"
    ELSE IF HasClass(el, {"card"}) THEN "card"
    ELSE IF HasClass(el, {"input", "field"}) THEN "input"
    ELSE IF HasClass(el, {"modal", "dialog"}) THEN "modal"
    ELSE el.tag

\* only visible borders are processed
HasVisibleBorder(el) ==
    /\ el.borderWidth # <<>> /\ el.borderWidth # PxText(0)
    /\ el.borderStyle # "" /\ el.borderStyle # "none"
    /\ el.borderColor # <<>>
    /\ el.borderColor # <<TransparentRgba>>
    /\ el.borderColor # <<TransparentWord>>
    /\ FirstBorderColor(el.borderColor) # <<TransparentRgba>>
    /\ FirstBorderColor(el.borderColor) # <<TransparentWord>>

BorderRun(map, el, n) ==
    IF n = 0 \/ ~HasVisibleBorder(el) THEN map
    ELSE LET key == <<el.borderWidth, el.borderStyle, FirstBorderColor(el.borderColor)>>
             i == KeyIndex(map, key)
             combo == IF i = 0
                      THEN [key |-> key, width |-> el.borderWidth, style |-> el.borderStyle,
                            color |-> FirstBorderColor(el.borderColor),
                            count |-> 0, elements |-> <<>>]
                      ELSE map[i]
             next == [combo EXCEPT !.count = @ + n,
                                   !.elements = SetAdd(@, BorderContext(el))]
         IN IF i = 0 THEN Append(map, next) ELSE [map EXCEPT ![i] = next]

\* count > 10 ? "high" : count > 3 ? "medium" : "low"
BorderConfidence(count) ==
    IF count > 10 THEN "high" ELSE IF count > 3 THEN "medium" ELSE "low"

extractBordersResult(map) ==
    LET processed == [i \in 1..Len(map) |->
                        [width |-> map[i].width, style |-> map[i].style,
                         color |-> map[i].color, count |-> map[i].count,
                         elements |-> SliceTo(map[i].elements, 5),
                         confidence |-> BorderConfidence(map[i].count)]]
    IN StableSort(processed, [i \in 1..Len(map), j \in 1..Len(map) |->
                                processed[j].count - processed[i].count < 0])

\* ---- extractShadows ----

ShadowRun(map, el, n) ==
    IF n = 0 \/ el.boxShadow = "" \/ el.boxShadow = "none" THEN map
    ELSE LET i == KeyIndex(map, el.boxShadow)
         IN IF i = 0 THEN Append(map, [key |-> el.boxShadow, count |-> n])
            ELSE [map EXCEPT ![i].count = @ + n]

\* the buckets of the other two extractors applied to shadows
ShadowConfidenceAsRadius(count) ==
    IF count > 10 THEN "high" ELSE IF count > 3 THEN "medium" ELSE "low"

\* count > 5 ? "high" : count > 2 ? "medium" : "low"
ShadowConfidence(count) ==
    IF count > 5 THEN "high" ELSE IF count > 2 THEN "medium" ELSE "low"

extractShadowsResult(map) ==
    LET records == [i \in 1..Len(map) |->
                      [shadow |-> map[i].key, count |-> map[i].count,
                       confidence |-> ShadowConfidence(map[i].count)]]
    IN StableSort(records, [i \in 1..Len(map), j \in 1..Len(map) |->
                              records[j].count - records[i].count < 0])

\* ---- the pages the geometry extractors are run on ----

\* the longest varying part of a page, in runs of equal elements
NumGeoRuns == 2

Px(n) == PxText(10 * n)

CardBox ==
    GeoElement("div", "", "", {"card"}, <<Px(8), Px(8), Px(16), Px(16)>>,
               Px(8), Px(1), "solid", <<Grey100>>, "0px 1px 2px")
CloseLink ==
    GeoElement("a", "", "Close", {"btn"}, <<Px(4), Px(4), Px(12), Px(0)>>,
               <<"5", "0", "%">>, Px(0), "none", <<Grey100>>, "none")
SearchField ==
    GeoElement("input", "", "", {"field"},
               <<<<"a", "u", "t", "o">>, PxText(25), <<"-">> \o Px(8), Px(0)>>,
               Px(0), Px(2), "solid", <<TransparentRgba, Grey100>>, "0px 4px 8px")
ModalDialog ==
    GeoElement("section", "dialog", "", {"modal"}, <<Px(6), Px(6), Px(2), Px(2)>>,
               Px(8), Px(1), "solid", <<Grey100, Red>>, "0px 4px 8px")

GeoElements == {CardBox, CloseLink, SearchField, ModalDialog}

\* how many equal elements a run holds
GeoCounts == {1, 3, 6, 11}

GeoRuns == {[n |-> n, el |-> el] : n \in GeoCounts, el \in GeoElements}

\* SpacingLimit distinct odd spacings, three elements each: a page whose
\* regular content already fills the retained spacing values
OddSpacings ==
    [i \in 1..(SpacingLimit \div 4) |->
       [n |-> 3,
        el |-> GeoElement("p", "", "", {},
                          <<Px(8 * i - 7), Px(8 * i - 5), Px(8 * i - 3), Px(8 * i - 1)>>,
                          Px(0), Px(0), "none", <<Grey100>>, "none")]]

RECURSIVE GeoTails(_)
GeoTails(n) ==
    IF n = 0 THEN {<<>>}
    ELSE GeoTails(n - 1)
           \cup {Append(t, r) : t \in {u \in GeoTails(n - 1) : Len(u) = n - 1}, r \in GeoRuns}

GeoPages == {head \o tail : head \in {<<>>, OddSpacings}, tail \in GeoTails(NumGeoRuns)}

\* ---- the four extractors on one page ----

InitGeometry ==
    /\ gpc = "scan"
    /\ gpage \in GeoPages
    /\ gscanned = 0
    /\ spacings = <<>>
    /\ radii = <<>>
    /\ combinations = <<>>
    /\ shadows = <<>>
    /\ geometry = NoGeometry
    /\ IdleColors
    /\ IdleBranding
    /\ IdleCli
    /\ IdleCall

\* the forEach callbacks of the four extractors on the next run of elements
GeoScanStep ==
    /\ gpc = "scan"
    /\ gscanned < Len(gpage)
    /\ LET run == gpage[gscanned + 1]
       IN /\ spacings' = SpacingRun(spacings, run.el, run.n)
          /\ radii' = RadiusRun(radii, run.el, run.n)
          /\ combinations' = BorderRun(combinations, run.el, run.n)
          /\ shadows' = ShadowRun(shadows, run.el, run.n)
    /\ gscanned' = gscanned + 1
    /\ UNCHANGED <<gpc, gpage, geometry>>
    /\ UNCHANGED <<colorVars, brandVars, cliVars, callVars>>

\* the values the four extractors return
GeoFinish ==
    /\ gpc = "scan"
    /\ gscanned = Len(gpage)
    /\ geometry' = [spacing |-> extractSpacingResult(spacings),
                    borderRadius |-> [values |-> extractBorderRadiusResult(radii)],
                    borders |-> [combinations |-> extractBordersResult(combinations)],
                    shadows |-> extractShadowsResult(shadows)]
    /\ gpc' = "done"
    /\ UNCHANGED <<gpage, gscanned, spacings, radii, combinations, shadows>>
    /\ UNCHANGED <<colorVars, brandVars, cliVars, callVars>>

NextGeometry == GeoScanStep \/ GeoFinish

SpecGeometry == InitGeometry /\ [][NextGeometry]_vars

----------------------------------------------------------------------------
(* SpecNormalize: normalizeColor applied to a colour string, then to its *)
(* own result                                                            *)

\* colour strings as they reach normalizeColor: computed colours, and the
\* texts of custom properties as their author wrote them
ColorTexts ==
    {Text(<<"#", "F", "F", "F">>),
     Text(<<"#", "3", "B", "8", "2", "F", "6">>),
     Text(<<"R", "e", "d">>),
     Text(<<"t", "r", "a", "n", "s", "p", "a", "r", "e", "n", "t">>),
     Text(<<"h", "s", "l", "(", "0", ",", " ", "0", "%", ",", " ", "0", "%", ")">>),
     Text(<<"R", "G", "B", "(", "2", "5", "5", ",", " ", "0", ",", " ", "0", ")">>),
     Text(<<"r", "g", "b", "(", "1", ",", "2", ",", "3", ")">>),
     Text(<<"R", "g", "b", "a", "(", "1", ",", " ", "2", ",", " ", "3", ",", " ", "0", ".", "5", ")">>),
     Text(<<"v", "a", "r", "(", "-", "-", "c", "o", "l", "o", "r", ")">>),
     Text(<<"r", "g", "b", "(", "3", "0", "0", ",", " ", "0", ",", " ", "0", ")">>),
     Text(<<"c", "o", "l", "o", "r", "(", "r", "g", "b", "(", "1", ",", " ", "2">>),
     Text(<<";", "r", "g", "b", "a", "(", "7", ",", " ", " ", "8", ",", " ", "9", ")">>)}

ColorStrings ==
    {Rgb(r, g, b) : r, g, b \in {0, 9, 255}}
        \cup {Rgba(r, 0, b, <<"0", ".", "5">>) : r, b \in {0, 9, 255}}
        \cup ColorTexts

InitNormalize ==
    /\ callPc = "called"
    /\ argument \in ColorStrings
    /\ returnValue = <<>>
    /\ IdleColors
    /\ IdleBranding
    /\ IdleCli
    /\ IdleGeometry

\* normalizeColor(x)
NormalizeOnce ==
    /\ callPc = "called"
    /\ returnValue' = <<normalizeColor(argument)>>
    /\ callPc' = "again"
    /\ UNCHANGED argument
    /\ UNCHANGED <<colorVars, brandVars, cliVars, geoVars>>

\* normalizeColor(normalizeColor(x))
NormalizeAgain ==
    /\ callPc = "again"
    /\ returnValue' = Append(returnValue, normalizeColor(returnValue[1]))
    /\ callPc' = "returned"
    /\ UNCHANGED argument
    /\ UNCHANGED <<colorVars, brandVars, cliVars, geoVars>>

NextNormalize == NormalizeOnce \/ NormalizeAgain

SpecNormalize == InitNormalize /\ [][NextNormalize]_vars

----------------------------------------------------------------------------
(* SpecCssVariables: the custom properties extractColors reports *)

\* custom properties one input document declares at most
NumCssVariables == 3

\* the names of the custom properties, in the order of the style declaration
CssProps == <<"--brand-color", "--bg-accent", "--text-muted", "--color-link", "--bg-hero">>

\* values of custom properties that pass the filters of the extraction loop
CssValues ==
    {Blue1, Blue2, Red, Text(<<"#", "3", "B", "8", "2", "F", "6">>), Text(<<"#", "F", "0", "0">>), Text(<<"#", "f", "0", "0">>), Text(<<"R", "G", "B", "(", "2", "5", "5", ",", " ", "0", ",", " ", "0", ")">>)}

RECURSIVE CssVariableLists(_)
CssVariableLists(n) ==
    IF n = 0 THEN {<<>>}
    ELSE CssVariableLists(n - 1)
           \cup {Append(l, [prop |-> CssProps[n], value |-> v]) :
                   l \in {k \in CssVariableLists(n - 1) : Len(k) = n - 1}, v \in CssValues}

\* the decision of the forEach callback for one custom property: whether it
\* is skipped as a colour of the palette
InPaletteOrNear(normalized, deduped) ==
    \/ \E i \in 1..Len(deduped) : deduped[i].normalized = normalized
    \/ \E i \in 1..Len(deduped) : deltaE(normalized, deduped[i].normalized) < 15 * 100

\* Object.entries(cssVariables).forEach: cssVarsByColor, in insertion order
RECURSIVE CssVarsByColor(_, _, _)
CssVarsByColor(byColor, cssVariables, deduped) ==
    IF cssVariables = <<>> THEN byColor
    ELSE
      LET entry == Head(cssVariables)
          normalized == normalizeColor(entry.value)
          hits == {i \in 1..Len(byColor) : byColor[i].normalized = normalized}
          next == IF InPaletteOrNear(normalized, deduped) THEN byColor
                  ELSE IF hits = {}
                  THEN Append(byColor, [normalized |-> normalized, value |-> entry.value,
                                        vars |-> <<entry.prop>>])
                  ELSE [byColor EXCEPT ![CHOOSE i \in hits : TRUE].vars =
                                           Append(@, entry.prop)]
      IN CssVarsByColor(next, Tail(cssVariables), deduped)

\* the last variable name of a colour
LastVariable(group) == group.vars[Len(group.vars)]

\* vars[0]: only the first variable name is shown
FirstVariable(group) == group.vars[1]

\* cssVarsByColor.forEach: filteredCssVariables, as its entries in order
FilteredCssVariables(byColor) ==
    [i \in 1..Len(byColor) |->
       [prop |-> FirstVariable(byColor[i]), value |-> byColor[i].value]]

InitCssVariables ==
    /\ callPc = "called"
    /\ argument \in {[perceptuallyDeduped |-> pal, cssVariables |-> v] :
                        pal \in {extractColorsPalette(pg) : pg \in {LightPage, DarkPage, RedPage}},
                        v \in CssVariableLists(NumCssVariables)}
    /\ returnValue = <<>>
    /\ IdleColors
    /\ IdleBranding
    /\ IdleCli
    /\ IdleGeometry

\* the forEach over the custom properties
DedupCssVariables ==
    /\ callPc = "called"
    /\ returnValue' = CssVarsByColor(<<>>, argument.cssVariables,
                                     argument.perceptuallyDeduped)
    /\ callPc' = "again"
    /\ UNCHANGED argument
    /\ UNCHANGED <<colorVars, brandVars, cliVars, geoVars>>

\* the conversion back to an object, and the return
ReturnCssVariables ==
    /\ callPc = "again"
    /\ returnValue' = [palette |-> argument.perceptuallyDeduped,
                       cssVariables |-> FilteredCssVariables(returnValue)]
    /\ callPc' = "returned"
    /\ UNCHANGED argument
    /\ UNCHANGED <<colorVars, brandVars, cliVars, geoVars>>

NextCssVariables == DedupCssVariables \/ ReturnCssVariables

SpecCssVariables == InitCssVariables /\ [][NextCssVariables]_vars

(***************************************************************************)
(* extractLinkStyles: the callback of page.evaluate                        *)
(***************************************************************************)

NumLinks == 3

LinkLimit == 8

\* text.includes(sub)
IncludesText(text, sub) ==
    \E i \in 1..(Len(text) - Len(sub) + 1) : SubSeq(text, i, i + Len(sub) - 1) = sub

\* className.split(' ').filter(c => c)
RECURSIVE SplitClasses(_, _, _)
SplitClasses(className, word, done) ==
    IF className = <<>> THEN (IF word = <<>> THEN done ELSE Append(done, word))
    ELSE IF Head(className) = " "
         THEN SplitClasses(Tail(className), <<>>,
                           IF word = <<>> THEN done ELSE Append(done, word))
         ELSE SplitClasses(Tail(className), Append(word, Head(className)), done)

\* /rgba?\((\d+),\s*(\d+),\s*(\d+)(?:,\s*([\d.]+))?\)/ tried at position
\* i: the three numbers, or <<>> when the pattern does not match there
LinkRgbMatchAt(cs, i) ==
    IF RgbMatchAt(cs, i) = <<>> THEN <<>>
    ELSE
      LET open == IF cs[i + 3] = "a" THEN i + 4 ELSE i + 3
          e1 == DigitsEnd(cs, open + 1)
          e2 == DigitsEnd(cs, SpacesEnd(cs, e1 + 1))
          r3 == SpacesEnd(cs, e2 + 1)
          \* (\d+) may give digits back, so every end of the third number counts
          ends == {e \in (r3 + 1)..DigitsEnd(cs, r3) : e <= Len(cs)}
          AlphaEnds(e) ==
              IF cs[e] # "," THEN {}
              ELSE LET a == SpacesEnd(cs, e + 1)
                       stops == {j \in a..Len(cs) : ~(IsDigit(cs[j]) \/ cs[j] = ".")}
                       last == IF stops = {} THEN Len(cs) + 1
                               ELSE CHOOSE j \in stops : \A x \in stops : j <= x
                   IN {j \in (a + 1)..last : j <= Len(cs)}
          firstEnds == {e \in ends : cs[e] = ")" \/ \E j \in AlphaEnds(e) : cs[j] = ")"}
      IN IF firstEnds = {} THEN <<>>
         ELSE LET e3 == CHOOSE e \in firstEnds : \A x \in firstEnds : e >= x
              IN <<DigitsValue(cs, open + 1, e1 - 1),
                   DigitsValue(cs, SpacesEnd(cs, e1 + 1), e2 - 1),
                   DigitsValue(cs, r3, e3 - 1)>>

\* color.match(...) of the callback's own normalizeColor; the serialized
\* rgb()/rgba() of a computed colour always closes its parenthesis
LinkRgbMatch(color) ==
    IF color.fmt \in {"rgb", "rgba"} THEN color.nums
    ELSE LET hits == {i \in 1..Len(color.chars) : LinkRgbMatchAt(color.chars, i) # <<>>}
         IN IF hits = {} THEN <<>>
            ELSE LinkRgbMatchAt(color.chars, CHOOSE i \in hits : \A x \in hits : i <= x)

\* key = normalizeColor(computed.color), with the normalizeColor declared in
\* the callback
LinkColorKey(color) ==
    LET rgbaMatch == LinkRgbMatch(color)
    IN IF rgbaMatch # <<>>
       THEN Text(<<"#">> \o padStart2(toString16(rgbaMatch[1]))
                         \o padStart2(toString16(rgbaMatch[2]))
                         \o padStart2(toString16(rgbaMatch[3])))
       ELSE Text(toLowerCase(color.chars))

\* the visibility test of the callback
LinkVisible(link) ==
    ~(link.width = 0 \/ link.height = 0 \/ link.display = "none"
        \/ link.visibility = "hidden")

\* a text-decoration that is set and is not 'none'
SpecificDecoration(textDecoration) == textDecoration # "" /\ textDecoration # "none"

NullHover == [isNull |-> TRUE, color |-> "undefined", textDecoration |-> "undefined"]

\* the body of the loop over the rules of the style sheets, for one rule
HoverRule(hoverState, classes, rule) ==
    LET matchesLink ==
            \/ \E k \in 1..Len(classes) :
                  IncludesText(rule.selectorText, <<".">> \o classes[k])
            \/ IncludesText(rule.selectorText, <<"a", ":", "h", "o", "v", "e", "r">>)
    IN IF matchesLink /\ IncludesText(rule.selectorText, <<":", "h", "o", "v", "e", "r">>)
       THEN [isNull |-> FALSE,
             color |-> IF rule.color # "" THEN rule.color ELSE hoverState.color,
             textDecoration |-> IF rule.textDecoration # "" THEN rule.textDecoration
                                ELSE hoverState.textDecoration]
       ELSE hoverState

RECURSIVE HoverState(_, _, _)
HoverState(hoverState, classes, rules) ==
    IF rules = <<>> THEN hoverState
    ELSE HoverState(HoverRule(hoverState, classes, Head(rules)), classes, Tail(rules))

\* uniqueStyles.set(key, ...) for the first link of a colour
NewLinkStyle(link, rules) ==
    [color |-> link.color,
     textDecoration |-> link.textDecoration,
     fontWeight |-> link.fontWeight,
     states |-> [default |-> [color |-> link.color,
                              textDecoration |-> link.textDecoration],
                 hover |-> HoverState(NullHover, SplitClasses(link.className, <<>>, <<>>),
                                      rules)]]

\* the merge in which every specific decoration replaces the stored one
LinkMergeLast(existing, link) ==
    IF SpecificDecoration(link.textDecoration)
    THEN [existing EXCEPT !.states.default.textDecoration = link.textDecoration]
    ELSE existing

\* the else branch: a later link of a colour already in the map
LinkMerge(existing, link) ==
    IF ~SpecificDecoration(existing.states.default.textDecoration)
    THEN IF SpecificDecoration(link.textDecoration)
         THEN [existing EXCEPT !.states.default.textDecoration = link.textDecoration]
         ELSE existing
    ELSE existing

\* links.forEach: uniqueStyles, as its entries in insertion order
RECURSIVE UniqueLinkStyles(_, _, _)
UniqueLinkStyles(uniqueStyles, links, rules) ==
    IF links = <<>> THEN uniqueStyles
    ELSE
      LET link == Head(links)
          key == LinkColorKey(link.color)
          hits == {i \in 1..Len(uniqueStyles) : uniqueStyles[i].key = key}
          next == IF ~LinkVisible(link) THEN uniqueStyles
                  ELSE IF hits = {}
                  THEN Append(uniqueStyles, [key |-> key, value |-> NewLinkStyle(link, rules)])
                  ELSE [uniqueStyles EXCEPT ![CHOOSE i \in hits : TRUE].value =
                                                LinkMerge(@, link)]
      IN UniqueLinkStyles(next, Tail(links), rules)

\* Array.from(uniqueStyles.values()).slice(0, 8)
LinkStyleValues(uniqueStyles) ==
    SliceTo([i \in 1..Len(uniqueStyles) |-> uniqueStyles[i].value], LinkLimit)

LinkElement(color, textDecoration, className) ==
    [width |-> 80, height |-> 20, display |-> "inline", visibility |-> "visible",
     color |-> color, textDecoration |-> textDecoration, fontWeight |-> "400",
     className |-> className]

LinkBlue == Rgb(0, 0, 255)

LinkBlueAlpha == Rgba(0, 0, 255, <<"0", ".", "5">>)

LinkDecorations == {"", "none", "underline", "line-through"}

NavClassName == <<"n", "a", "v", " ", " ", "c", "t", "a">>

LinkElements ==
    {LinkElement(c, d, <<>>) : c \in {LinkBlue, LinkBlueAlpha, Red}, d \in LinkDecorations}
        \cup {LinkElement(Text(<<"c", "o", "l", "o", "r", "(", "s", "r", "g", "b", " ", "0", " ", "0", " ", "1", ")">>),
                          "underline", NavClassName),
              [LinkElement(LinkBlue, "underline", <<>>) EXCEPT !.width = 0],
              [LinkElement(LinkBlue, "line-through", NavClassName) EXCEPT !.display = "none"]}

RECURSIVE LinkLists(_)
LinkLists(n) ==
    IF n = 0 THEN {<<>>}
    ELSE LinkLists(n - 1)
           \cup {Append(l, e) : l \in {k \in LinkLists(n - 1) : Len(k) = n - 1},
                                e \in LinkElements}

\* the rules of the page's style sheets, in order
LinkRuleSets ==
    {<<>>,
     <<[selectorText |-> <<"a", ":", "h", "o", "v", "e", "r">>,
        color |-> "rgb(255, 0, 0)", textDecoration |-> ""],
       [selectorText |-> <<".", "n", "a", "v">>,
        color |-> "blue", textDecoration |-> "none"],
       [selectorText |-> <<".", "c", "t", "a", ":", "h", "o", "v", "e", "r">>,
        color |-> "", textDecoration |-> "underline"]>>}

InitLinks ==
    /\ callPc = "called"
    /\ argument \in {[links |-> l, rules |-> r] : l \in LinkLists(NumLinks), r \in LinkRuleSets}
    /\ returnValue = <<>>
    /\ IdleColors
    /\ IdleBranding
    /\ IdleCli
    /\ IdleGeometry

\* links.forEach
ScanLinks ==
    /\ callPc = "called"
    /\ returnValue' = UniqueLinkStyles(<<>>, argument.links, argument.rules)
    /\ callPc' = "again"
    /\ UNCHANGED argument
    /\ UNCHANGED <<colorVars, brandVars, cliVars, geoVars>>

\* the return of the first eight styles
ReturnLinks ==
    /\ callPc = "again"
    /\ returnValue' = LinkStyleValues(returnValue)
    /\ callPc' = "returned"
    /\ UNCHANGED argument
    /\ UNCHANGED <<colorVars, brandVars, cliVars, geoVars>>

NextLinks == ScanLinks \/ ReturnLinks

SpecLinks == InitLinks /\ [][NextLinks]_vars

(***************************************************************************)
(* extractBadgeStyles: the callback of page.evaluate                       *)
(***************************************************************************)

NumBadges == 2

BadgeLimit == 20

\* the text of a computed colour
ColorString(color) ==
    LET list == IntToString(color.nums[1]) \o <<",", " ">> \o IntToString(color.nums[2])
                    \o <<",", " ">> \o IntToString(color.nums[3])
    IN IF color.fmt = "rgb" THEN <<"r", "g", "b", "(">> \o list \o <<")">>
       ELSE IF color.fmt = "rgba"
       THEN <<"r", "g", "b", "a", "(">> \o list \o <<",", " ">> \o color.chars \o <<")">>
       ELSE color.chars

\* the text "r, g, b" that the variant detection looks for
ColorTriple(r, g, b) ==
    IntToString(r) \o <<",", " ">> \o IntToString(g) \o <<",", " ">> \o IntToString(b)

BadgeWords ==
    {<<"b", "a", "d", "g", "e">>, <<"t", "a", "g">>, <<"p", "i", "l", "l">>,
     <<"c", "h", "i", "p">>}

LabelWord == <<"l", "a", "b", "e", "l">>

StatusWord == <<"s", "t", "a", "t", "u", "s">>

\* the selector list of querySelectorAll
IsBadgeCandidate(el) ==
    \/ \E w \in BadgeWords : IncludesText(el.className, w)
    \/ IncludesText(el.className, LabelWord) /\ el.tag # "label"
    \/ el.role = "status"

\* the visibility test of the callback
BadgeVisible(el) ==
    ~(el.width = 0 \/ el.height = 0 \/ el.display = "none" \/ el.visibility = "hidden")

\* a size test that needs both sides to be too large
BadgeTooLargeBoth(width, height) == width > 200 * 10 /\ height > 60 * 10

\* width > 200 || height > 60
BadgeTooLarge(width, height) == width > 200 * 10 \/ height > 60 * 10

\* fontSize > 16
BadgeFontTooLarge(fontSize) == fontSize > 16 * 10

hasBorder(el) ==
    /\ el.borderWidth # <<>>
    /\ parseFloat(el.borderWidth) > 0
    /\ el.border # "none"

hasBackground(el) ==
    /\ ColorString(el.backgroundColor) # <<>>
    /\ el.backgroundColor # TransparentRgba
    /\ el.backgroundColor # TransparentWord

\* (a + b) / 2 > limit, for lengths in tenths and a limit in pixels
AverageExceeds(a, b, limit) == a + b > 2 * limit * 10

\* avgPaddingVertical > 16 || avgPaddingHorizontal > 24
BadgePaddingTooLarge(el) ==
    \/ AverageExceeds(parseFloat(el.paddingTop), parseFloat(el.paddingBottom), 16)
    \/ AverageExceeds(parseFloat(el.paddingLeft), parseFloat(el.paddingRight), 24)

\* the early returns of the callback: whether the element goes on to be recorded
BadgeQualifies(el) ==
    /\ BadgeVisible(el)
    /\ ~BadgeTooLarge(el.width, el.height)
    /\ ~BadgeFontTooLarge(parseFloat(el.fontSize))
    /\ ~(~hasBackground(el) /\ ~hasBorder(el))
    /\ ~BadgePaddingTooLarge(el)

\* variant, from the background colour's text
BadgeVariant(bgColor) ==
    LET Has(r, g, b) == IncludesText(ColorString(bgColor), ColorTriple(r, g, b))
    IN IF Has(255, 0, 0) \/ Has(220, 53, 69) \/ Has(239, 68, 68) THEN "error"
       ELSE IF Has(255, 193, 7) \/ Has(251, 191, 36) \/ Has(245, 158, 11) THEN "warning"
       ELSE IF Has(40, 167, 69) \/ Has(34, 197, 94) \/ Has(16, 185, 129) THEN "success"
       ELSE IF Has(0, 123, 255) \/ Has(59, 130, 246) \/ Has(37, 99, 235) THEN "info"
       ELSE "neutral"

\* styleType: filled, outline or subtle
BadgeStyleType(el) ==
    IF ~hasBackground(el) /\ hasBorder(el) THEN "outline"
    ELSE IF hasBackground(el)
    THEN LET rgbMatch == RgbMatch(el.backgroundColor)
         IN IF rgbMatch # <<>> /\ rgbMatch[1] > 240 /\ rgbMatch[2] > 240 /\ rgbMatch[3] > 240
            THEN "subtle" ELSE "filled"
    ELSE "filled"

\* the parts of styleKey, which the code joins with "-"
BadgeStyleKey(el) ==
    <<ColorString(el.backgroundColor), ColorString(el.color),
      NumberToString(parseFloat(el.borderRadius)), BadgeStyleType(el)>>

\* the record pushed for an element
BadgeStyle(el) ==
    [backgroundColor |-> el.backgroundColor,
     color |-> el.color,
     padding |-> <<el.paddingTop, el.paddingRight, el.paddingBottom, el.paddingLeft>>,
     borderRadius |-> el.borderRadius,
     border |-> el.border,
     fontSize |-> el.fontSize,
     fontWeight |-> el.fontWeight,
     variant |-> BadgeVariant(el.backgroundColor),
     styleType |-> BadgeStyleType(el),
     isRounded |-> 3 * parseFloat(el.borderRadius) > el.height,
     classes |-> SliceTo(el.className, 50),
     confidence |-> IF \/ \E w \in BadgeWords \cup {LabelWord, StatusWord} :
                             IncludesText(toLowerCase(el.className), w)
                       \/ el.role = "status"
                    THEN "high" ELSE "medium"]

\* badges.forEach: badgeStyles and the keys of seenStyles
RECURSIVE BadgeStyles(_, _, _)
BadgeStyles(badgeStyles, seenStyles, badges) ==
    IF badges = <<>> THEN badgeStyles
    ELSE
      LET badge == Head(badges)
          fresh == /\ IsBadgeCandidate(badge)
                   /\ BadgeQualifies(badge)
                   /\ BadgeStyleKey(badge) \notin seenStyles
      IN IF fresh
         THEN BadgeStyles(Append(badgeStyles, BadgeStyle(badge)),
                          seenStyles \cup {BadgeStyleKey(badge)}, Tail(badges))
         ELSE BadgeStyles(badgeStyles, seenStyles, Tail(badges))

BadgeVariants == {"error", "warning", "success", "info", "neutral"}

\* badgeStyles.filter(b => b.variant === variant)
BadgesOfVariant(badgeStyles, variant) ==
    LET IsVariant(b) == b.variant = variant
    IN SelectSeq(badgeStyles, IsVariant)

\* the returned object
BadgeResult(badgeStyles) ==
    [all |-> SliceTo(badgeStyles, BadgeLimit),
     byVariant |-> [v \in BadgeVariants |-> BadgesOfVariant(badgeStyles, v)]]

BadgeElement(width, height, fontSize, vertical, horizontal) ==
    [tag |-> "span", className |-> <<"b", "a", "d", "g", "e">>, role |-> "",
     width |-> width, height |-> height, display |-> "inline-block",
     visibility |-> "visible",
     fontSize |-> PxText(fontSize), fontWeight |-> "600",
     backgroundColor |-> Red, color |-> White,
     border |-> "0px none rgb(255, 255, 255)", borderWidth |-> PxText(0),
     borderRadius |-> PxText(40),
     paddingTop |-> PxText(vertical[1]), paddingBottom |-> PxText(vertical[2]),
     paddingLeft |-> PxText(horizontal[1]), paddingRight |-> PxText(horizontal[2])]

SmallBadge == BadgeElement(400, 200, 120, <<40, 40>>, <<80, 80>>)

\* elements at and just over each bound, in tenths of a pixel
BadgeShapes ==
    {BadgeElement(w, h, f, v, p) :
        w \in {2000, 2001}, h \in {600, 601}, f \in {160, 165},
        v \in {<<200, 120>>, <<200, 121>>}, p \in {<<300, 180>>, <<300, 181>>}}

BadgeElements ==
    BadgeShapes
        \cup {SmallBadge,
              [SmallBadge EXCEPT !.backgroundColor = TransparentRgba,
                                 !.border = "1px solid rgb(59, 130, 246)",
                                 !.borderWidth = PxText(10),
                                 !.className = <<"T", "a", "g", "s">>, !.role = "status"],
              [SmallBadge EXCEPT !.backgroundColor = TransparentRgba],
              [SmallBadge EXCEPT !.backgroundColor = NearWhite, !.borderRadius = PxText(99990),
                                 !.className = <<"f", "o", "r", "m", "-", "l", "a", "b", "e", "l">>],
              [SmallBadge EXCEPT !.backgroundColor = Blue1Alpha, !.tag = "label",
                                 !.className = <<"l", "a", "b", "e", "l">>],
              [SmallBadge EXCEPT !.visibility = "hidden"],
              [SmallBadge EXCEPT !.className = <<"c", "a", "r", "d">>]}

RECURSIVE BadgeLists(_)
BadgeLists(n) ==
    IF n = 0 THEN {<<>>}
    ELSE BadgeLists(n - 1)
           \cup {Append(l, e) : l \in {k \in BadgeLists(n - 1) : Len(k) = n - 1},
                                e \in BadgeElements}

InitBadges ==
    /\ callPc = "called"
    /\ argument \in BadgeLists(NumBadges)
    /\ returnValue = <<>>
    /\ IdleColors
    /\ IdleBranding
    /\ IdleCli
    /\ IdleGeometry

\* badges.forEach
ScanBadges ==
    /\ callPc = "called"
    /\ returnValue' = BadgeStyles(<<>>, {}, argument)
    /\ callPc' = "again"
    /\ UNCHANGED argument
    /\ UNCHANGED <<colorVars, brandVars, cliVars, geoVars>>

\* the grouping by variant, and the return
ReturnBadges ==
    /\ callPc = "again"
    /\ returnValue' = BadgeResult(returnValue)
    /\ callPc' = "returned"
    /\ UNCHANGED argument
    /\ UNCHANGED <<colorVars, brandVars, cliVars, geoVars>>

NextBadges == ScanBadges \/ ReturnBadges

SpecBadges == InitBadges /\ [][NextBadges]_vars

(***************************************************************************)
(* detectFrameworks: the callback of page.evaluate. A page is given by the *)
(* outcome of each test the callback makes on the document: the regular    *)
(* expressions on outerHTML and hasResource as booleans, countMatches as   *)
(* numbers of elements.                                                    *)
(***************************************************************************)

\* frameworks.push({ name, confidence, evidence })
Push(frameworks, name, confidence, evidence) ==
    Append(frameworks, [name |-> name, confidence |-> confidence, evidence |-> evidence])

\* Array.prototype.join(', ')
RECURSIVE Join(_)
Join(list) ==
    IF Len(list) <= 1 THEN list
    ELSE <<Head(list), ", ">> \o Join(Tail(list))

\* list.push(label) under a condition
PushIf(list, cond, label) == IF cond THEN Append(list, label) ELSE list

tailwindEvidence(doc) ==
    PushIf(PushIf(PushIf(<<>>, doc.arbitraryValues, "arbitrary values (e.g., top-[117px])"),
                  doc.modifiers, "responsive/state modifiers"),
           doc.tailwindResource, "stylesheet")

\* tailwindEvidence.length >= 2
TailwindDetected(doc) == Len(tailwindEvidence(doc)) >= 2

TailwindBlock(frameworks, doc) ==
    IF TailwindDetected(doc)
    THEN Push(frameworks, "Tailwind CSS", "high", Join(tailwindEvidence(doc)))
    ELSE frameworks

bootstrapEvidence(doc) ==
    PushIf(PushIf(PushIf(<<>>, doc.containerCount > 0 /\ doc.rowCount > 0 /\ doc.colCount > 0,
                         "grid system (container + row + col)"),
                  doc.btnVariants, "button variants"),
           doc.bootstrapResource, "stylesheet")

\* Bootstrap reported on one piece of evidence
BootstrapOnOneEvidence(frameworks, doc) ==
    IF Len(bootstrapEvidence(doc)) >= 1
    THEN Push(frameworks, "Bootstrap", "high", Join(bootstrapEvidence(doc)))
    ELSE frameworks

BootstrapBlock(frameworks, doc) ==
    IF Len(bootstrapEvidence(doc)) >= 2
    THEN Push(frameworks, "Bootstrap", "high", Join(bootstrapEvidence(doc)))
    ELSE frameworks

\* a block that reports a library when a count of elements exceeds a minimum
CountBlock(frameworks, count, minimum, name, label) ==
    IF count > minimum THEN Push(frameworks, name, "high", <<count, label>>)
    ELSE frameworks

VuetifyBlock(frameworks, doc) ==
    IF \/ doc.vuetifySpecific > 8 /\ doc.vuetifyAppCount > 0
       \/ doc.hasVuetifyTheme /\ doc.vuetifySpecific > 5
    THEN Push(frameworks, "Vuetify", "high", <<doc.vuetifySpecific, " Vuetify components">>)
    ELSE frameworks

\* querySelectorAll('[data-radix-], [data-state]').length
radixCount(doc) == doc.dataRadixOnly + doc.dataState

\* DaisyUI reported without the Tailwind condition
DaisyUIUngated(frameworks, doc) ==
    IF doc.daisySpecific > 3 \/ doc.hasDaisyTheme
    THEN Push(frameworks, "DaisyUI", "high",
              <<"Tailwind + ", doc.daisySpecific, " DaisyUI components">>)
    ELSE frameworks

DaisyUIBlock(frameworks, doc) ==
    IF TailwindDetected(doc)
    THEN IF doc.daisySpecific > 3 \/ doc.hasDaisyTheme
         THEN Push(frameworks, "DaisyUI", "high",
                   <<"Tailwind + ", doc.daisySpecific, " DaisyUI components">>)
         ELSE frameworks
    ELSE frameworks

foundationEvidence(doc) ==
    PushIf(PushIf(<<>>, doc.foundationGridCount > 0 \/ doc.foundationButtonCount > 0,
                  "grid/button system"),
           doc.foundationResource, "stylesheet")

FoundationBlock(frameworks, doc) ==
    IF Len(foundationEvidence(doc)) >= 1 \/ doc.dataFoundationCount > 0
    THEN Push(frameworks, "Foundation", "high",
              IF Join(foundationEvidence(doc)) # <<>> THEN Join(foundationEvidence(doc))
              ELSE <<"data attributes">>)
    ELSE frameworks

bulmaEvidence(doc) ==
    PushIf(PushIf(PushIf(<<>>, doc.columnsOnlyCount + doc.columnCount > 0 /\ doc.columnCount > 2,
                         "columns system"),
                  doc.hasBulmaButtons, "button modifiers"),
           doc.bulmaResource, "stylesheet")

BulmaBlock(frameworks, doc) ==
    IF Len(bulmaEvidence(doc)) >= 2
    THEN Push(frameworks, "Bulma", "high", Join(bulmaEvidence(doc)))
    ELSE frameworks

SemanticUIBlock(frameworks, doc) ==
    IF doc.semanticCount > 3 \/ doc.semanticResource
    THEN Push(frameworks, "Semantic UI", "high", <<doc.semanticCount, " .ui components">>)
    ELSE frameworks

UIkitBlock(frameworks, doc) ==
    IF doc.uikitCount > 3 \/ doc.uikitResource
    THEN Push(frameworks, "UIkit", "high", <<doc.uikitCount, " uk- components">>)
    ELSE frameworks

\* countMatches('[data-slot], [data-state]') > 5
hasShadcnComponents(doc) == doc.dataSlotOnly + doc.dataState > 5

ShadcnBlock(frameworks, doc) ==
    IF /\ TailwindDetected(doc)
       /\ radixCount(doc) > 3
       /\ (doc.shadcnClasses \/ hasShadcnComponents(doc))
    THEN Push(frameworks, "shadcn/ui", "medium", <<"Tailwind + Radix + component patterns">>)
    ELSE frameworks

HeadlessUIBlock(frameworks, doc) ==
    IF TailwindDetected(doc) /\ doc.headlessCount > 2
    THEN Push(frameworks, "Headless UI", "high",
              <<doc.headlessCount, " headless components with Tailwind">>)
    ELSE frameworks

QuasarBlock(frameworks, doc) ==
    IF doc.quasarCount > 5 \/ doc.hasQApp
    THEN Push(frameworks, "Quasar", "high", <<doc.quasarCount, " q- components">>)
    ELSE frameworks

\* the blocks 1 to 21 in the order of the callback
detectFrameworks(doc) ==
    LET f1 == TailwindBlock(<<>>, doc)
        f2 == BootstrapBlock(f1, doc)
        f3 == CountBlock(f2, doc.muiCount, 3, "Material UI (MUI)", " MUI components")
        f4 == CountBlock(f3, doc.chakraCount, 3, "Chakra UI", " Chakra components")
        f5 == CountBlock(f4, doc.antCount, 3, "Ant Design", " Ant components")
        f6 == VuetifyBlock(f5, doc)
        f7 == CountBlock(f6, doc.polarisCount, 2, "Shopify Polaris", " Polaris components")
        f8 == CountBlock(f7, radixCount(doc), 5, "Radix UI", " Radix primitives")
        f9 == DaisyUIBlock(f8, doc)
        f10 == FoundationBlock(f9, doc)
        f11 == BulmaBlock(f10, doc)
        f12 == SemanticUIBlock(f11, doc)
        f13 == UIkitBlock(f12, doc)
        f14 == ShadcnBlock(f13, doc)
        f15 == HeadlessUIBlock(f14, doc)
        f16 == CountBlock(f15, doc.primeCount, 5, "PrimeReact/Vue/NG", " Prime components")
        f17 == CountBlock(f16, doc.mantineCount, 3, "Mantine", " Mantine components")
        f18 == CountBlock(f17, doc.carbonCount, 3, "Carbon Design System", " Carbon components")
        f19 == CountBlock(f18, doc.fluentCount, 5, "Fluent UI", " Fluent components")
        f20 == QuasarBlock(f19, doc)
    IN CountBlock(f20, doc.elementCount, 5, "Element Plus/UI", " el- components")

\* a document on which no test of the callback holds
PlainDocument ==
    [arbitraryValues |-> FALSE, modifiers |-> FALSE, tailwindResource |-> FALSE,
     containerCount |-> 0, rowCount |-> 0, colCount |-> 0, btnVariants |-> FALSE,
     bootstrapResource |-> FALSE,
     muiCount |-> 0, chakraCount |-> 0, antCount |-> 0,
     vuetifySpecific |-> 0, hasVuetifyTheme |-> FALSE, vuetifyAppCount |-> 0,
     polarisCount |-> 0, dataRadixOnly |-> 0, dataState |-> 0, dataSlotOnly |-> 0,
     daisySpecific |-> 0, hasDaisyTheme |-> FALSE,
     foundationGridCount |-> 0, foundationButtonCount |-> 0, foundationResource |-> FALSE,
     dataFoundationCount |-> 0,
     columnsOnlyCount |-> 0, columnCount |-> 0, hasBulmaButtons |-> FALSE,
     bulmaResource |-> FALSE,
     semanticCount |-> 0, semanticResource |-> FALSE,
     uikitCount |-> 0, uikitResource |-> FALSE,
     shadcnClasses |-> FALSE, headlessCount |-> 0,
     primeCount |-> 0, mantineCount |-> 0, carbonCount |-> 0, fluentCount |-> 0,
     quasarCount |-> 0, hasQApp |-> FALSE, elementCount |-> 0]

\* documents with signs of Tailwind and of the libraries built on it
TailwindDocuments ==
    {[PlainDocument EXCEPT !.arbitraryValues = a, !.modifiers = m, !.tailwindResource = r,
                           !.dataState = s, !.shadcnClasses = c, !.daisySpecific = d,
                           !.hasDaisyTheme = t, !.headlessCount = h] :
        a, m, r, c, t \in BOOLEAN, s \in {0, 4, 6}, d \in {3, 4}, h \in {2, 3}}

BootstrapDocuments ==
    {[PlainDocument EXCEPT !.containerCount = c, !.rowCount = w, !.colCount = l,
                           !.btnVariants = b, !.bootstrapResource = r,
                           !.dataFoundationCount = d] :
        c, w, l \in {0, 2}, b, r \in BOOLEAN, d \in {0, 1}}

FoundationDocuments ==
    {[PlainDocument EXCEPT !.foundationGridCount = g, !.foundationButtonCount = b,
                           !.foundationResource = r, !.dataFoundationCount = d] :
        g, b, d \in {0, 1}, r \in BOOLEAN}

BulmaDocuments ==
    {[PlainDocument EXCEPT !.columnsOnlyCount = s, !.columnCount = c,
                           !.hasBulmaButtons = b, !.bulmaResource = r] :
        s \in {0, 1}, c \in {0, 2, 3}, b, r \in BOOLEAN}

SemanticUIkitDocuments ==
    {[PlainDocument EXCEPT !.semanticCount = s, !.semanticResource = r,
                           !.uikitCount = u, !.uikitResource = k] :
        s, u \in {3, 4}, r, k \in BOOLEAN}

\* documents with the components of one component library, at and over the
\* minimum of its block
ComponentDocuments ==
    {[PlainDocument EXCEPT !.muiCount = n, !.chakraCount = 7 - n, !.antCount = n,
                           !.polarisCount = n - 1, !.dataRadixOnly = n + 2,
                           !.primeCount = n + 2, !.mantineCount = n,
                           !.carbonCount = 7 - n, !.fluentCount = n + 2,
                           !.elementCount = 9 - n, !.quasarCount = q, !.hasQApp = a,
                           !.vuetifySpecific = v, !.hasVuetifyTheme = t,
                           !.vuetifyAppCount = p] :
        n \in {3, 4}, q \in {5, 6}, a, t \in BOOLEAN, v \in {5, 6, 8, 9}, p \in {0, 1}}

\* a document on which every test holds
FullDocument ==
    [arbitraryValues |-> TRUE, modifiers |-> TRUE, tailwindResource |-> TRUE,
     containerCount |-> 1, rowCount |-> 4, colCount |-> 12, btnVariants |-> TRUE,
     bootstrapResource |-> TRUE,
     muiCount |-> 4, chakraCount |-> 4, antCount |-> 4,
     vuetifySpecific |-> 9, hasVuetifyTheme |-> TRUE, vuetifyAppCount |-> 1,
     polarisCount |-> 3, dataRadixOnly |-> 1, dataState |-> 6, dataSlotOnly |-> 1,
     daisySpecific |-> 4, hasDaisyTheme |-> TRUE,
     foundationGridCount |-> 1, foundationButtonCount |-> 1, foundationResource |-> TRUE,
     dataFoundationCount |-> 1,
     columnsOnlyCount |-> 1, columnCount |-> 3, hasBulmaButtons |-> TRUE,
     bulmaResource |-> TRUE,
     semanticCount |-> 4, semanticResource |-> TRUE,
     uikitCount |-> 4, uikitResource |-> TRUE,
     shadcnClasses |-> TRUE, headlessCount |-> 3,
     primeCount |-> 6, mantineCount |-> 4, carbonCount |-> 4, fluentCount |-> 6,
     quasarCount |-> 6, hasQApp |-> TRUE, elementCount |-> 6]

Documents ==
    TailwindDocuments \cup BootstrapDocuments \cup FoundationDocuments \cup BulmaDocuments
        \cup SemanticUIkitDocuments \cup ComponentDocuments \cup {FullDocument}

InitFrameworks ==
    /\ callPc = "called"
    /\ argument \in Documents
    /\ returnValue = <<>>
    /\ IdleColors
    /\ IdleBranding
    /\ IdleCli
    /\ IdleGeometry

\* the callback, up to return frameworks
DetectFrameworks ==
    /\ callPc = "called"
    /\ returnValue' = detectFrameworks(argument)
    /\ callPc' = "returned"
    /\ UNCHANGED argument
    /\ UNCHANGED <<colorVars, brandVars, cliVars, geoVars>>

NextFrameworks == DetectFrameworks

SpecFrameworks == InitFrameworks /\ [][NextFrameworks]_vars

----------------------------------------------------------------------------
(* Properties of one extractColors pass (checked under SpecColors) *)

\* the colorMap record a palette entry was made from
DataOf(entry) == colorMap[MapIndex(colorMap, entry.normalized)]

InPalette(pal, normalized) == \E i \in 1..Len(pal) : pal[i].normalized = normalized

\* C1: in the palette one extractColors pass returns, every two distinct
\* entries are at deltaE >= 15 of each other.
C1_DedupInvariant ==
    cpc = "done" =>
        \A i, j \in 1..Len(perceptuallyDeduped) :
            i # j => deltaE(perceptuallyDeduped[i].normalized,
                            perceptuallyDeduped[j].normalized) >= 15 * 100

\* a pass that merged at least one colour into another and returned several
\* entries, over colours of which two are within 15 of a third but not of each
\* other
C1_Witness ==
    /\ cpc = "done"
    /\ Len(perceptuallyDeduped) >= 2
    /\ \E k \in 1..Len(clusters) : Len(clusters[k]) >= 2
    /\ \E a, b, c \in 1..Len(palette) :
          /\ deltaE(palette[a].normalized, palette[b].normalized) < 15 * 100
          /\ deltaE(palette[b].normalized, palette[c].normalized) < 15 * 100
          /\ deltaE(palette[a].normalized, palette[c].normalized) >= 15 * 100

\* C3: the entry kept for a cluster is one of the cluster and its count is at
\* least the count of every entry of the cluster.
C3_KeptHasHighestCount ==
    cpc = "done" =>
        /\ Len(perceptuallyDeduped) = Len(clusters)
        /\ \A k \in 1..Len(clusters) :
              /\ \E m \in 1..Len(clusters[k]) : clusters[k][m] = perceptuallyDeduped[k]
              /\ \A m \in 1..Len(clusters[k]) :
                    perceptuallyDeduped[k].count >= clusters[k][m].count

\* a cluster of three entries with a discarded entry of a smaller count
C3_Witness ==
    /\ cpc = "done"
    /\ \E k \in 1..Len(clusters) :
          /\ Len(clusters[k]) >= 3
          /\ \E m \in 1..Len(clusters[k]) :
                clusters[k][m].count < perceptuallyDeduped[k].count

C9_StructuralFilter ==
    cpc \in {"dedup", "done"} =>
        \A i \in 1..Len(colorMap) :
            LET data == colorMap[i]
                threshold == IF totalElements \div 100 > 3 THEN totalElements \div 100 ELSE 3
                structural == /\ data.count * 100 > 40 * totalElements
                              /\ data.score * 5 < data.count * 6
            IN /\ structural =>
                    /\ ~InPalette(palette, data.normalized)
                    /\ cpc = "done" => ~InPalette(perceptuallyDeduped, data.normalized)
               /\ (data.count >= threshold /\ ~structural) =>
                    InPalette(palette, data.normalized)

\* a pass with a structural colour above the threshold, a colour of usage above
\* 40% kept for its score, and a low-score colour kept for its usage
C9_Witness ==
    /\ cpc = "done"
    /\ \E i \in 1..Len(colorMap) :
          /\ colorMap[i].count >= 3
          /\ colorMap[i].count * 100 > 40 * totalElements
          /\ colorMap[i].score * 5 < colorMap[i].count * 6
          /\ ~InPalette(perceptuallyDeduped, colorMap[i].normalized)
    /\ \E i \in 1..Len(colorMap) :
          /\ colorMap[i].count * 100 > 40 * totalElements
          /\ colorMap[i].score * 5 >= colorMap[i].count * 6
          /\ InPalette(perceptuallyDeduped, colorMap[i].normalized)
    /\ \E i \in 1..Len(colorMap) :
          /\ colorMap[i].count * 100 <= 40 * totalElements
          /\ colorMap[i].score * 5 < colorMap[i].count * 6
          /\ InPalette(perceptuallyDeduped, colorMap[i].normalized)

\* C10: the confidence of a returned entry is decided by the accumulated score
\* of its colour: high iff score > 20, medium iff 5 < score <= 20, low iff
\* score <= 5.
C10_ConfidenceFromScore ==
    cpc = "done" =>
        \A i \in 1..Len(perceptuallyDeduped) :
            LET e == perceptuallyDeduped[i]
                score == DataOf(e).score
            IN /\ e.confidence = "high" <=> score > 20
               /\ e.confidence = "medium" <=> (score > 5 /\ score <= 20)
               /\ e.confidence = "low" <=> score <= 5

\* a returned palette with a high, a medium and a low entry, the medium one
\* with a score of exactly 20
C10_Witness ==
    /\ cpc = "done"
    /\ \E i \in 1..Len(perceptuallyDeduped) :
          perceptuallyDeduped[i].confidence = "high"
    /\ \E i \in 1..Len(perceptuallyDeduped) :
          /\ perceptuallyDeduped[i].confidence = "medium"
          /\ DataOf(perceptuallyDeduped[i]).score = 20
    /\ \E i \in 1..Len(perceptuallyDeduped) :
          perceptuallyDeduped[i].confidence = "low"

----------------------------------------------------------------------------
(* Properties of extractBranding (checked under Spec) *)

Range(seq) == {seq[i] : i \in 1..Len(seq)}

\* the sequential phase a page mutation belongs to
PhaseOf(m) ==
    IF m \in {"hover", "focus", "mouseMove"} THEN "hover"
    ELSE IF m \in {"theme", "emulateMedia"} THEN "dark"
    ELSE "mobile"

\* the phases that must have finished before a phase mutates the page
PhasesBefore(phase, o) ==
    IF phase = "hover" THEN {"batch"}
    ELSE IF phase = "dark" THEN {"batch", "hover"}
    ELSE {"batch", "hover"} \cup (IF o.darkMode THEN {"dark"} ELSE {})

\* C2: the merge of a re-extraction pass (dark mode, mobile) appends an entry
\* only if its deltaE to every entry already in the palette is at least 15.
C2_MergeIsPerceptual ==
    [][(pc \in {"darkLinks", "mobileColors"} =>
          \A i \in (Len(colorsPalette) + 1)..Len(colorsPalette') :
              \A j \in 1..(i - 1) :
                  deltaE(colorsPalette'[i].normalized, colorsPalette'[j].normalized)
                      >= 15 * 100)]_vars

\* C4: a page mutation of the sequential phases happens only when every
\* extractor of the batch has finished, after every earlier phase has finished
\* and before its own phase has; the phases finish in the order batch, hover,
\* dark, mobile.
C4_MutationsAfterBatchInOrder ==
    [][/\ mutations' # mutations =>
             /\ \A e \in Extractors : ext[e] = "done"
             /\ \A k \in (Len(mutations) + 1)..Len(mutations') :
                   /\ PhaseOf(mutations'[k]) \notin Range(completed)
                   /\ PhasesBefore(PhaseOf(mutations'[k]), options) \subseteq Range(completed)
       /\ completed' # completed =>
             /\ \A e \in Extractors : ext[e] = "done"
             /\ \A i, j \in 1..Len(completed') :
                   i < j => (\E a, b \in 1..4 :
                               /\ a < b
                               /\ <<"batch", "hover", "dark", "mobile">>[a] = completed'[i]
                               /\ <<"batch", "hover", "dark", "mobile">>[b] = completed'[j])
      ]_vars

\* a finished run with both options set that hovered, focused, switched the
\* theme, emulated the dark colour scheme and resized the viewport
C4_Witness ==
    /\ pc = "done"
    /\ options.darkMode /\ options.mobile
    /\ {"hover", "focus", "theme", "emulateMedia", "viewport"} \subseteq Range(mutations)
    /\ completed = <<"batch", "hover", "dark", "mobile">>

\* C5: once an extractor of the batch has thrown, no result is returned and
\* extractBranding can only fail, with the first error thrown; every category
\* of a returned result comes from an extractor that fulfilled.
C5_NoPartialResult ==
    /\ result.returned => \A e \in Extractors : result.categories[e] = "done"
    /\ (\E e \in Extractors : ext[e] = "failed") =>
          /\ ~result.returned
          /\ pc \in {"await", "failed"}
          /\ pc = "failed" => (error = batchError /\ ext[batchError] = "failed")

\* extractBranding has failed with the error of the first of two extractors
\* that threw, while a third extractor had fulfilled and a fourth was running
C5_Witness ==
    /\ pc = "failed"
    /\ error = batchError
    /\ \E e \in Extractors : e # batchError /\ ext[e] = "failed"
    /\ \E e \in Extractors : ext[e] = "done"
    /\ \E e \in Extractors : ext[e] = "running"
    /\ ~result.returned

\* C6: when a catch block of the probe loop swallows a failure, the loop goes
\* on to the next element, extractBranding does not fail, and the observations
\* pushed so far (those of the failing element's hover included) are kept; the
\* loop is left only when every sampled element has been processed.
C6_ProbeFailureSkipped ==
    [][/\ caught' # caught =>
             /\ pc' = "probe"
             /\ error' = error
             /\ probeIndex' = probeIndex + 1
             /\ Len(hoverFocusColors') >= Len(hoverFocusColors)
             /\ SubSeq(hoverFocusColors', 1, Len(hoverFocusColors)) = hoverFocusColors
             /\ sampled[probeIndex + 1].failAt = "focus" =>
                   hoverFocusColors' =
                       hoverFocusColors \o HoverObservations(sampled[probeIndex + 1])
       /\ (pc = "probe" /\ pc' # "probe") =>
             (/\ probeIndex = Len(sampled)
              /\ pc' # "failed")
      ]_vars

\* a returned result of a run whose first sampled element failed at its focus
\* after its hover was observed, and whose second element was probed without
\* failure and observed too
C6_Witness ==
    /\ pc = "done"
    /\ result.returned
    /\ Len(sampled) >= 2
    /\ probeIndex = Len(sampled)
    /\ caught = {1}
    /\ sampled[1].failAt = "focus"
    /\ Len(hoverFocusColors) > Len(HoverObservations(sampled[1]))

\* C7: after the hover/focus merge no two entries of the palette have the same
\* normalized colour.
C7_NoSameNormalized ==
    "hover" \in Range(completed) =>
        \A i, j \in 1..Len(colorsPalette) :
            i # j => colorsPalette[i].normalized # colorsPalette[j].normalized

----------------------------------------------------------------------------
(* Properties of the per-element score (checked under SpecColors) *)

\* a visible element with a button/cta-like context and a background that is
\* none of the empty, transparent, white, black and light gray values
ColoredButton(el) ==
    /\ ~el.hidden
    /\ el.keywords \cap {"button", "btn", "cta"} # {}
    /\ el.bgColor \notin {<<>>, <<TransparentRgba>>, <<TransparentWord>>,
                          <<White>>, <<Black>>, <<LightGray>>}

\* the normalized background colours of the coloured buttons of the scanned
\* page whose colorMap record passes the threshold and the structural filter
KeptButtonBackgrounds ==
    {n \in {normalizeColor(c) :
              c \in UNION {Range(extractColorsFromValue(page[r].el.bgColor)) :
                             r \in {q \in 1..Len(page) : ColoredButton(page[q].el)}}} :
        /\ MapIndex(colorMap, n) # 0
        /\ KeepsColor(colorMap[MapIndex(colorMap, n)], totalElements)}

\* C11 as stated: every such background colour has an entry of confidence
\* 'high' in the palette extractColors returns.
C11_ButtonColorInReturnedPalette ==
    cpc = "done" =>
        \A n \in KeptButtonBackgrounds :
            \E i \in 1..Len(perceptuallyDeduped) :
                /\ perceptuallyDeduped[i].normalized = n
                /\ perceptuallyDeduped[i].confidence = "high"

\* C11, amended: a coloured button scores 25; every such background colour has
\* an entry of confidence 'high' in the palette before the perceptual dedup,
\* and the returned palette keeps, for the cluster that entry fell in, that
\* entry itself or an entry of the cluster with a count at least as high.
C11_ButtonBoost ==
    /\ \A r \in 1..Len(page) :
          ColoredButton(page[r].el) => ElementScore(page[r].el) = 25
    /\ cpc \in {"dedup", "done"} =>
          \A n \in KeptButtonBackgrounds :
              \E i \in 1..Len(palette) :
                  /\ palette[i].normalized = n
                  /\ palette[i].confidence = "high"
    /\ cpc = "done" =>
          \A n \in KeptButtonBackgrounds :
              \E k \in 1..Len(clusters) :
                  /\ \E m \in 1..Len(clusters[k]) : clusters[k][m].normalized = n
                  /\ \/ /\ perceptuallyDeduped[k].normalized = n
                        /\ perceptuallyDeduped[k].confidence = "high"
                     \/ /\ perceptuallyDeduped[k].normalized # n
                        /\ perceptuallyDeduped[k].count
                              >= colorMap[MapIndex(colorMap, n)].count

\* a pass over a page of three coloured buttons whose background is returned
\* with confidence 'high', each button having a keyword score of 4
C11_Witness ==
    /\ cpc = "done"
    /\ KeptButtonBackgrounds # {}
    /\ \E r \in 1..Len(page) :
          /\ ColoredButton(page[r].el)
          /\ ElementScoreTableOnly(page[r].el) = 4
          /\ page[r].n = 3
    /\ \A n \in KeptButtonBackgrounds :
          \E i \in 1..Len(perceptuallyDeduped) :
              /\ perceptuallyDeduped[i].normalized = n
              /\ perceptuallyDeduped[i].confidence = "high"
              /\ perceptuallyDeduped[i].count = 3

----------------------------------------------------------------------------
(* Threshold monotonicity (checked under SpecColors) *)

\* the number of entries returned for every threshold up to MaxThreshold
PaletteSizes ==
    [t \in 0..MaxThreshold |-> Len(PaletteAt(colorMap, totalElements, t))]

\* C12: for the colour observations of a scanned page, the filter, sort and
\* perceptual dedup run with a higher occurrence threshold never return more
\* entries than with a lower one.
C12_ThresholdMonotone ==
    cpc = "done" =>
        \A size \in {PaletteSizes} :
            \A t1, t2 \in 0..MaxThreshold : t1 <= t2 => size[t2] <= size[t1]

\* observations for which raising the threshold first removes only a colour
\* that the dedup had merged into another, leaving the size as it was, and
\* raising it further shrinks the palette without emptying it
C12_Witness ==
    /\ cpc = "done"
    /\ \E size \in {PaletteSizes} :
          \E t1, t2, t3 \in 0..MaxThreshold :
             /\ t1 < t2 /\ t2 < t3
             /\ t1 = Threshold(totalElements)
             /\ size[t1] = Len(perceptuallyDeduped)
             /\ size[t2] = size[t1]
             /\ \E k \in 1..Len(clusters) :
                   \E m \in 1..Len(clusters[k]) : clusters[k][m].count < t2
             /\ size[t3] < size[t1]
             /\ size[t3] > 0

----------------------------------------------------------------------------
(* Transparent values in the colours output *)

\* the two texts of a fully transparent colour
Transparent == {TransparentRgba, TransparentWord}

\* C13: no palette entry, no semantic colour of a finished extractColors pass
\* and no hover/focus observation is 'rgba(0, 0, 0, 0)' or 'transparent'.
C13_NoTransparent ==
    /\ \A i \in 1..Len(perceptuallyDeduped) : perceptuallyDeduped[i].color \notin Transparent
    /\ \A i \in 1..Len(colorsPalette) : colorsPalette[i].color \notin Transparent
    /\ \A i \in 1..Len(hoverFocusColors) : hoverFocusColors[i].color \notin Transparent
    /\ cpc = "done" =>
          \A v \in semanticColors.primary \cup semanticColors.secondary :
              \A i \in 1..Len(v) : v[i] \notin Transparent

----------------------------------------------------------------------------
(* The navigation loop (checked under Spec) *)

----------------------------------------------------------------------------
(* Content validation (checked under Spec) *)

\* C15: a navigation attempt is accepted only if the content length is over
\* 500; an attempt with a content length of 500 or less is not accepted and,
\* while attempts remain, is followed by another attempt.
C15_ContentOver500 ==
    [][(pc = "nav" /\ contentLength' # -1) =>
          /\ validated' <=> contentLength' > 500
          /\ (contentLength' <= 500 /\ attempts' < maxAttempts) => pc' = "nav"
      ]_vars

----------------------------------------------------------------------------
(* Properties of the command-line action (checked under SpecCli) *)

\* C16: whenever the extraction fails in headless mode, the browser is closed
\* and the extraction is tried again with a visible browser, whatever the
\* error.
C16_HeadlessFailureRetriesHeaded ==
    [][(cliPc = "extract" /\ ~useHeaded /\ cliPc' # "convert") =>
          /\ browser' = "null"
          /\ closed' = closed + 1
          /\ useHeaded'
          /\ cliPc' = "launch"
          /\ exitCode' = -1
      ]_vars

----------------------------------------------------------------------------
(* Properties of the geometry extractors (checked under SpecGeometry) *)

\* the spacing values extractSpacing returned, in tenths of a pixel
RetainedSpacings ==
    {geometry.spacing.commonValues[i].numericValue :
       i \in 1..Len(geometry.spacing.commonValues)}

\* how often a spacing value was observed
SpacingCount(value) == spacings[KeyIndex(spacings, value)].count

ObservedSpacings == {spacings[i].key : i \in 1..Len(spacings)}

\* C18: extractSpacing retains at most 20 of the most frequent positive
\* spacing values and infers scaleType from them alone: "8px" iff some retained
\* value is divisible by 8, otherwise "4px" iff some retained value is
\* divisible by 4, otherwise "custom".
C18_ScaleTypeFromRetained ==
    gpc = "done" =>
        /\ Cardinality(RetainedSpacings) <= 20
        /\ Len(geometry.spacing.commonValues) = Cardinality(RetainedSpacings)
        /\ RetainedSpacings \subseteq ObservedSpacings
        /\ \A v \in RetainedSpacings : v > 0
        /\ \A v \in RetainedSpacings : \A w \in ObservedSpacings \ RetainedSpacings :
               SpacingCount(w) <= SpacingCount(v)
        /\ Cardinality(ObservedSpacings) > 20 => Cardinality(RetainedSpacings) = 20
        /\ Cardinality(ObservedSpacings) <= 20 => RetainedSpacings = ObservedSpacings
        /\ geometry.spacing.scaleType = "8px"
               <=> \E v \in RetainedSpacings : v % 80 = 0
        /\ geometry.spacing.scaleType = "4px"
               <=> /\ \A v \in RetainedSpacings : v % 80 # 0
                   /\ \E v \in RetainedSpacings : v % 40 = 0
        /\ geometry.spacing.scaleType = "custom"
               <=> \A v \in RetainedSpacings : v % 40 # 0

\* a page with more than 20 spacing values where a multiple of 8 was observed
\* but not retained, and the retained values give "4px"
C18_Witness ==
    /\ gpc = "done"
    /\ Cardinality(ObservedSpacings) > 20
    /\ \E w \in ObservedSpacings \ RetainedSpacings : w % 80 = 0
    /\ \E v \in RetainedSpacings : v % 40 = 0
    /\ geometry.spacing.scaleType = "4px"

\* the bucket of the border-radius and border records
CountBucket(count) ==
    IF count > 10 THEN "high" ELSE IF 3 < count /\ count <= 10 THEN "medium" ELSE "low"

\* C19 as stated: every border-radius value, border combination and
\* box-shadow record has confidence "high" iff its count > 10, "medium" iff
\* 3 < count <= 10, and "low" otherwise.
C19_UniformBuckets ==
    gpc = "done" =>
        /\ \A i \in 1..Len(geometry.borderRadius.values) :
               geometry.borderRadius.values[i].confidence
                   = CountBucket(geometry.borderRadius.values[i].count)
        /\ \A i \in 1..Len(geometry.borders.combinations) :
               geometry.borders.combinations[i].confidence
                   = CountBucket(geometry.borders.combinations[i].count)
        /\ \A i \in 1..Len(geometry.shadows) :
               geometry.shadows[i].confidence = CountBucket(geometry.shadows[i].count)

\* C19 (amended): every border-radius value and border combination has
\* confidence "high" iff its count > 10, "medium" iff 3 < count <= 10, "low"
\* otherwise; every box-shadow record has confidence "high" iff its count > 5,
\* "medium" iff 2 < count <= 5, "low" otherwise; and every observed value has
\* its record.
C19_Buckets ==
    gpc = "done" =>
        /\ Len(geometry.borderRadius.values) = Len(radii)
        /\ Len(geometry.borders.combinations) = Len(combinations)
        /\ Len(geometry.shadows) = Len(shadows)
        /\ \A i \in 1..Len(geometry.borderRadius.values) :
               geometry.borderRadius.values[i].confidence
                   = CountBucket(geometry.borderRadius.values[i].count)
        /\ \A i \in 1..Len(geometry.borders.combinations) :
               geometry.borders.combinations[i].confidence
                   = CountBucket(geometry.borders.combinations[i].count)
        /\ \A i \in 1..Len(geometry.shadows) :
               LET rec == geometry.shadows[i]
               IN /\ rec.confidence = "high" <=> rec.count > 5
                  /\ rec.confidence = "medium" <=> 2 < rec.count /\ rec.count <= 5
                  /\ rec.confidence = "low" <=> rec.count <= 2

\* a radius and a border seen three times are "low" while a shadow seen three
\* times is "medium", and a shadow seen six times is "high"
C19_Witness ==
    /\ gpc = "done"
    /\ \E i \in 1..Len(geometry.borderRadius.values) :
           /\ geometry.borderRadius.values[i].count = 3
           /\ geometry.borderRadius.values[i].confidence = "low"
    /\ \E i \in 1..Len(geometry.borders.combinations) :
           /\ geometry.borders.combinations[i].count = 3
           /\ geometry.borders.combinations[i].confidence = "low"
    /\ \E i \in 1..Len(geometry.shadows) :
           /\ geometry.shadows[i].count = 3
           /\ geometry.shadows[i].confidence = "medium"
    /\ \E i \in 1..Len(geometry.shadows) :
           /\ geometry.shadows[i].count = 6
           /\ geometry.shadows[i].confidence = "high"

----------------------------------------------------------------------------
(* Properties of components.buttons (checked under Spec) *)

\* C20: the components.buttons of the returned ExtractionResult has at most
\* 15 entries and no two of them have the same states.default.backgroundColor,
\* whatever the options are.
C20_ButtonsDedupedAndCapped ==
    result.returned =>
        /\ Len(result.buttons) <= 15
        /\ \A i, j \in 1..Len(result.buttons) :
               i < j => result.buttons[i].states.default.backgroundColor
                          # result.buttons[j].states.default.backgroundColor

----------------------------------------------------------------------------
(* Properties of normalizeColor (checked under SpecNormalize) *)

\* C25: normalizeColor is idempotent: for every colour string x,
\* normalizeColor(normalizeColor(x)) = normalizeColor(x).
C25_NormalizeIdempotent ==
    callPc = "returned" => returnValue[2] = returnValue[1]

----------------------------------------------------------------------------
(* Properties of the reported custom properties (checked under *)
(* SpecCssVariables)                                           *)

\* position of a custom property in the declaration order, 0 when not declared
DeclaredAt(prop) ==
    LET at == {i \in 1..Len(argument.cssVariables) : argument.cssVariables[i].prop = prop}
    IN IF at = {} THEN 0 ELSE CHOOSE i \in at : TRUE

\* C26: no reported variable's normalized value equals, or is within
\* deltaE < 15 of, the normalized value of a palette entry; no two reported
\* variables have the same normalized value; and of several variables that
\* alias one colour the first encountered is the one reported, with its value.
C26_CssVariablesDeduped ==
    callPc = "returned" =>
        LET reported == returnValue.cssVariables
            pal == returnValue.palette
            declared == argument.cssVariables
        IN /\ \A i \in 1..Len(reported) : \A k \in 1..Len(pal) :
                  /\ normalizeColor(reported[i].value) # pal[k].normalized
                  /\ ~(deltaE(normalizeColor(reported[i].value), pal[k].normalized) < 1500)
           /\ \A i, j \in 1..Len(reported) :
                  i # j => normalizeColor(reported[i].value) # normalizeColor(reported[j].value)
           /\ \A i \in 1..Len(reported) :
                  /\ DeclaredAt(reported[i].prop) # 0
                  /\ declared[DeclaredAt(reported[i].prop)].value = reported[i].value
                  /\ \A d \in 1..Len(declared) :
                         normalizeColor(declared[d].value) = normalizeColor(reported[i].value)
                             => DeclaredAt(reported[i].prop) <= d
           /\ \A d \in 1..Len(declared) :
                  \/ \E i \in 1..Len(reported) :
                         normalizeColor(declared[d].value) = normalizeColor(reported[i].value)
                  \/ \E k \in 1..Len(pal) :
                         \/ normalizeColor(declared[d].value) = pal[k].normalized
                         \/ deltaE(normalizeColor(declared[d].value), pal[k].normalized) < 1500

\* one variable is dropped as perceptually close to a palette colour without
\* being equal to it, and of two variables written differently that alias one
\* colour only the first is reported
C26_Witness ==
    /\ callPc = "returned"
    /\ \E d \in 1..Len(argument.cssVariables) : \E k \in 1..Len(returnValue.palette) :
           /\ normalizeColor(argument.cssVariables[d].value) # returnValue.palette[k].normalized
           /\ deltaE(normalizeColor(argument.cssVariables[d].value),
                     returnValue.palette[k].normalized) < 1500
           /\ \A j \in 1..Len(returnValue.palette) :
                  normalizeColor(argument.cssVariables[d].value)
                      # returnValue.palette[j].normalized
    /\ \E d1, d2 \in 1..Len(argument.cssVariables) :
           /\ d1 < d2
           /\ argument.cssVariables[d1].value # argument.cssVariables[d2].value
           /\ normalizeColor(argument.cssVariables[d1].value)
                  = normalizeColor(argument.cssVariables[d2].value)
           /\ \E i \in 1..Len(returnValue.cssVariables) :
                  returnValue.cssVariables[i].prop = argument.cssVariables[d1].prop
           /\ \A i \in 1..Len(returnValue.cssVariables) :
                  returnValue.cssVariables[i].prop # argument.cssVariables[d2].prop

----------------------------------------------------------------------------
(* Browsers of the command-line action (checked under SpecCli and *)
(* SpecCliFair)                                                   *)

\* C27: every browser the action launched has been closed when the process
\* ends, on every path.
C27_EveryBrowserClosed ==
    cliPc = "exited" => closed = Len(launched) /\ browser = "null"

\* C28: the launch loop launches at most twice, first headless and then
\* headed; a failure of the headed extraction ends the run with exit code 1
\* without another launch; and the run ends.
C28_LaunchLoopTerminates ==
    /\ [](/\ Len(launched) <= 2
          /\ Len(launched) >= 1 => launched[1].mode = "headless"
          /\ Len(launched) = 2 => launched[2].mode = "headed")
    /\ [][(cliPc = "extract" /\ useHeaded /\ cliPc' # "convert")
             => (cliPc' = "exited" /\ exitCode' = 1 /\ launched' = launched)]_vars
    /\ <>(cliPc = "exited")

\* the headed retry failed: two launches, exit code 1
C28_Witness ==
    /\ cliPc = "exited"
    /\ Len(launched) = 2
    /\ launched[2].mode = "headed"
    /\ err \in ErrorMessages
    /\ exitCode = 1

----------------------------------------------------------------------------
(* The unvalidated page and the mutated page (checked under Spec) *)

\* C29: when the first attempt loaded a page that failed the content check and
\* the second attempt loads one that fails it too, extractBranding leaves the
\* loop for the batch without an error, and a returned result carries no
\* record of the failed validation.
C29_UnvalidatedProceeds ==
    /\ [][(/\ pc = "nav" /\ attempts = maxAttempts - 1
            /\ contentLength >= 0
            /\ contentLength' >= 0 /\ contentLength' <= 100)
             => (pc' = "batch" /\ error' = "none" /\ ~validated' /\ ~result'.returned)]_vars
    /\ [](result.returned =>
             DOMAIN result = {"returned", "categories", "palette", "buttons", "isCanvasOnly"})

\* a result returned after two attempts that did not pass the content check
C29_Witness ==
    /\ result.returned
    /\ attempts = maxAttempts
    /\ ~validated
    /\ error = "none"
    /\ \A e \in Extractors : result.categories[e] = "done"

SpecificLinksOf(style) ==
    {i \in 1..Len(argument.links) :
        /\ LinkVisible(argument.links[i])
        /\ LinkColorKey(argument.links[i].color) = LinkColorKey(style.color)
        /\ SpecificDecoration(argument.links[i].textDecoration)}

\* C21 as stated: among the visible links sharing one normalized default text
\* colour, the stored default text-decoration is the text-decoration of the
\* last-seen link whose decoration is specific, if there is one.
C21_LastSpecificWins ==
    callPc = "returned" =>
        \A k \in 1..Len(returnValue) :
            LET specific == SpecificLinksOf(returnValue[k])
            IN specific # {} =>
                 returnValue[k].states.default.textDecoration =
                     argument.links[CHOOSE i \in specific : \A x \in specific : i >= x].textDecoration

\* C21 amended: the stored default text-decoration is the text-decoration of
\* the first-seen visible link of that colour whose decoration is specific, if
\* there is one; it is upgraded at most once, and the entry's top-level
\* textDecoration stays that of the first visible link of the colour.
C21_FirstSpecificWins ==
    callPc = "returned" =>
        \A k \in 1..Len(returnValue) :
            LET specific == SpecificLinksOf(returnValue[k])
                same == {i \in 1..Len(argument.links) :
                            /\ LinkVisible(argument.links[i])
                            /\ LinkColorKey(argument.links[i].color)
                                  = LinkColorKey(returnValue[k].color)}
                first == CHOOSE i \in same : \A x \in same : i <= x
            IN /\ same # {}
               /\ returnValue[k].textDecoration = argument.links[first].textDecoration
               /\ returnValue[k].states.default.textDecoration =
                     IF specific # {}
                     THEN argument.links[CHOOSE i \in specific : \A x \in specific : i <= x].textDecoration
                     ELSE argument.links[first].textDecoration

\* a colour whose first link has no decoration and which two later links
\* decorate differently: the stored default was upgraded once
C21_Witness ==
    /\ callPc = "returned"
    /\ \E k \in 1..Len(returnValue) :
          LET specific == SpecificLinksOf(returnValue[k])
          IN /\ returnValue[k].textDecoration = "none"
             /\ returnValue[k].states.default.textDecoration = "underline"
             /\ \E i, j \in specific :
                   /\ i < j
                   /\ argument.links[i].textDecoration = "underline"
                   /\ argument.links[j].textDecoration = "line-through"
                   /\ argument.links[i].color # argument.links[j].color

(***************************************************************************)
(* Properties of extractBadgeStyles (checked under SpecBadges)             *)
(***************************************************************************)

\* the plausibility bounds, on the measures of an element in tenths of a pixel
WithinBadgeBounds(el) ==
    /\ el.width <= 2000
    /\ el.height <= 600
    /\ parseFloat(el.fontSize) <= 160
    /\ parseFloat(el.paddingTop) + parseFloat(el.paddingBottom) <= 2 * 160
    /\ parseFloat(el.paddingLeft) + parseFloat(el.paddingRight) <= 2 * 240

\* the badges of the returned object, from 'all' and from 'byVariant'
ReportedBadges ==
    {returnValue.all[i] : i \in 1..Len(returnValue.all)}
        \cup UNION {{returnValue.byVariant[v][i] : i \in 1..Len(returnValue.byVariant[v])} :
                       v \in BadgeVariants}

\* C22: every badge reported in 'all' and in 'byVariant' is the record of an
\* element with width <= 200px, height <= 60px, font-size <= 16px, average
\* vertical padding <= 16px and average horizontal padding <= 24px, and its own
\* font size and paddings are within these bounds; the elements that fail a
\* bound add nothing to the result, whatever their class and styling.
C22_BadgesWithinBounds ==
    callPc = "returned" =>
        /\ \A b \in ReportedBadges :
              /\ parseFloat(b.fontSize) <= 160
              /\ parseFloat(b.padding[1]) + parseFloat(b.padding[3]) <= 2 * 160
              /\ parseFloat(b.padding[2]) + parseFloat(b.padding[4]) <= 2 * 240
              /\ \E i \in 1..Len(argument) :
                    WithinBadgeBounds(argument[i]) /\ BadgeStyle(argument[i]) = b
        /\ returnValue = BadgeResult(BadgeStyles(<<>>, {}, SelectSeq(argument, WithinBadgeBounds)))

\* a page with a badge exactly at every bound, which is reported, and one just
\* over a single bound, which is not
C22_Witness ==
    /\ callPc = "returned"
    /\ Len(argument) = 2
    /\ ~WithinBadgeBounds(argument[1])
    /\ BadgeStyle(argument[1]) \notin ReportedBadges
    /\ argument[2] = BadgeElement(2000, 600, 160, <<200, 120>>, <<300, 180>>)
    /\ returnValue.all = <<BadgeStyle(argument[2])>>
    /\ returnValue.byVariant["error"] = <<BadgeStyle(argument[2])>>

(***************************************************************************)
(* Properties of detectFrameworks (checked under SpecFrameworks)           *)
(***************************************************************************)

\* the names in the returned list, in order
ReportedNames == [i \in 1..Len(returnValue) |-> returnValue[i].name]

IsReported(name) == \E i \in 1..Len(returnValue) : returnValue[i].name = name

\* the evidence checks of each framework on a document, one truth value per
\* check: class patterns, resource URLs, component counts over their minimum
EvidenceChecks(doc) ==
    [n \in {ReportedNames[i] : i \in 1..Len(ReportedNames)} |->
       CASE n = "Tailwind CSS" -> <<doc.arbitraryValues, doc.modifiers, doc.tailwindResource>>
         [] n = "Bootstrap" ->
              <<doc.containerCount > 0 /\ doc.rowCount > 0 /\ doc.colCount > 0,
                doc.btnVariants, doc.bootstrapResource>>
         [] n = "Foundation" ->
              <<doc.foundationGridCount > 0 \/ doc.foundationButtonCount > 0,
                doc.foundationResource, doc.dataFoundationCount > 0>>
         [] n = "Bulma" -> <<doc.columnCount > 2, doc.hasBulmaButtons, doc.bulmaResource>>
         [] n = "Semantic UI" -> <<doc.semanticCount > 3, doc.semanticResource>>
         [] n = "UIkit" -> <<doc.uikitCount > 3, doc.uikitResource>>
         [] n = "DaisyUI" ->
              <<doc.daisySpecific > 3, doc.hasDaisyTheme,
                Cardinality({k \in 1..3 :
                    <<doc.arbitraryValues, doc.modifiers, doc.tailwindResource>>[k]}) >= 2>>
         [] n = "shadcn/ui" ->
              <<doc.dataRadixOnly + doc.dataState > 3,
                doc.shadcnClasses \/ doc.dataSlotOnly + doc.dataState > 5,
                Cardinality({k \in 1..3 :
                    <<doc.arbitraryValues, doc.modifiers, doc.tailwindResource>>[k]}) >= 2>>
         [] n = "Headless UI" ->
              <<doc.headlessCount > 2,
                Cardinality({k \in 1..3 :
                    <<doc.arbitraryValues, doc.modifiers, doc.tailwindResource>>[k]}) >= 2>>
         [] n = "Vuetify" ->
              <<doc.vuetifySpecific > 5, doc.hasVuetifyTheme, doc.vuetifyAppCount > 0>>
         [] n = "Quasar" -> <<doc.quasarCount > 5, doc.hasQApp>>
         [] OTHER -> <<TRUE>>]

\* how many evidence checks of a reported framework held
EvidenceCount(name) ==
    Cardinality({k \in 1..Len(EvidenceChecks(argument)[name]) :
                    EvidenceChecks(argument)[name][k]})

\* C23 as stated: a framework is reported only when at least 2 independent
\* pieces of evidence for it were found: for every framework in the output
\* list, two or more of its evidence checks held on the page.
C23_TwoPiecesOfEvidence ==
    callPc = "returned" =>
        \A i \in 1..Len(returnValue) : EvidenceCount(returnValue[i].name) >= 2

\* the least number of evidence checks with which the code reports a framework
MinimumEvidence(name) ==
    IF name \in {"Tailwind CSS", "Bootstrap", "Bulma", "DaisyUI", "Headless UI", "Vuetify"}
    THEN 2
    ELSE IF name = "shadcn/ui" THEN 3 ELSE 1

\* C23 amended: the minimum is per framework. Tailwind CSS, Bootstrap and
\* Bulma are reported exactly when at least 2 of their three evidence checks
\* held; Foundation, Semantic UI and UIkit are reported exactly when at least 1
\* of their checks held; every other reported framework had at least its own
\* minimum, which is 1 for the libraries detected by one component count.
C23_EvidenceMinimum ==
    callPc = "returned" =>
        /\ \A i \in 1..Len(returnValue) :
              EvidenceCount(returnValue[i].name) >= MinimumEvidence(returnValue[i].name)
        /\ IsReported("Tailwind CSS") <=>
              Cardinality({k \in 1..3 : <<argument.arbitraryValues, argument.modifiers,
                                          argument.tailwindResource>>[k]}) >= 2
        /\ IsReported("Bootstrap") <=>
              Cardinality({k \in 1..3 :
                  <<argument.containerCount > 0 /\ argument.rowCount > 0
                        /\ argument.colCount > 0,
                    argument.btnVariants, argument.bootstrapResource>>[k]}) >= 2
        /\ IsReported("Bulma") <=>
              Cardinality({k \in 1..3 : <<argument.columnCount > 2, argument.hasBulmaButtons,
                                          argument.bulmaResource>>[k]}) >= 2
        /\ IsReported("Foundation") <=>
              \/ argument.foundationGridCount > 0 \/ argument.foundationButtonCount > 0
              \/ argument.foundationResource
              \/ argument.dataFoundationCount > 0
        /\ IsReported("Semantic UI") <=> argument.semanticCount > 3 \/ argument.semanticResource
        /\ IsReported("UIkit") <=> argument.uikitCount > 3 \/ argument.uikitResource

\* a page with exactly two pieces of Bootstrap evidence and one piece of
\* Foundation evidence: both are reported
C23_Witness ==
    /\ callPc = "returned"
    /\ ReportedNames = <<"Bootstrap", "Foundation">>
    /\ EvidenceCount("Bootstrap") = 2
    /\ EvidenceCount("Foundation") = 1
    /\ returnValue[2].evidence = <<"data attributes">>

\* C24: DaisyUI, shadcn/ui and Headless UI each appear in the output only if
\* 'Tailwind CSS' also appears in it, and then Tailwind CSS precedes it in the
\* list.
C24_GatedOnTailwind ==
    callPc = "returned" =>
        \A i \in 1..Len(returnValue) :
            returnValue[i].name \in {"DaisyUI", "shadcn/ui", "Headless UI"} =>
                \E j \in 1..(i - 1) : returnValue[j].name = "Tailwind CSS"

\* a Tailwind page with a DaisyUI theme, Radix primitives with component
\* patterns, and headless components: the three follow Tailwind CSS
C24_Witness ==
    /\ callPc = "returned"
    /\ ReportedNames = <<"Tailwind CSS", "DaisyUI", "shadcn/ui", "Headless UI">>
    /\ ~argument.tailwindResource
    /\ argument.daisySpecific = 3

====
